---- MODULE Spec2Model ----
(***************************************************************************)
(* Patrol execution and control engine (src/patrol/executor.py):           *)
(* the per-task verdict pipeline, the single-pass orchestrator, the       *)
(* scheduled controller with its cooperative cancellation flag, and the    *)
(* failure-notification dispatch (src/patrol/notifications/manager.py).    *)
(*                                                                         *)
(* Texts are sequences of Unicode code points, so that lower(), the `in`   *)
(* substring test and the indicator lists are computed as Python computes  *)
(* them.  A Python None is the record NoneText / the value NoneInt.        *)
(***************************************************************************)
EXTENDS Integers, Sequences, FiniteSets, TLC

VARIABLES
    cfg,            \* self.patrol_config (read-only after construction)
    notifiers,      \* self.notification_manager.notifiers
    exit,           \* self.graceful_exit.exit
    pc,             \* position of the thread of control
    run_count,      \* _execute_scheduled_patrol: run_count
    all_results,    \* _execute_scheduled_patrol: all_results
    result,         \* _execute_scheduled_patrol: result (last pass returned)
    results,        \* _execute_single_patrol: results (pass in progress)
    taskIdx,        \* _execute_single_patrol: position in patrol_config.tasks
    interval,       \* _execute_scheduled_patrol: interval
    remaining,      \* _wait_with_interrupt_check: remaining
    returned,       \* value returned by execute()
    resets,         \* calls of agent.reset() so far
    homeLog,        \* last cleanup: app reference -> what device home() did
    dispatched,     \* last pass: what send_failure_notification returned
    slicesAfterExit,\* 1-second slices that ended after the flag was set
    tcase,          \* verdict pipeline alone: the task and the agent call
    tres            \* verdict pipeline alone: the TaskResult

vars == <<cfg, notifiers, exit, pc, run_count, all_results, result, results,
          taskIdx, interval, remaining, returned, resets, homeLog, dispatched,
          slicesAfterExit, tcase, tres>>

(***************************************************************************)
(* Bounds of the model                                                     *)
(***************************************************************************)
MaxTasks == 3         \* longest task list of a single pass
MaxSchedTasks == 2    \* longest task list of a scheduled patrol
MaxRuns == 3          \* largest max_runs
MaxPasses == 2        \* passes explored when max_runs does not bound the loop
MaxInterval == 2      \* longest success_interval / failure_interval
MaxFragments == 2     \* fragments concatenated into one agent output
MaxRules == 2         \* longest list of additional validation rules
MaxChannels == 2      \* most notifiers registered in the manager
MaxCleanupTasks == 2  \* longest task list of a pass observed for its cleanup
MaxLines == 4         \* most lines of an exploration output
MaxYamlTasks == 2     \* longest task list of a YAML configuration

(***************************************************************************)
(* Text                                                                    *)
(***************************************************************************)
\* str.lower() on the code points used here: A-Z map to a-z.
Lower(s) == [i \in 1..Len(s) |-> IF s[i] \in 65..90 THEN s[i] + 32 ELSE s[i]]

\* `sub in s` for Python strings.
Contains(s, sub) ==
    \E i \in 0..(Len(s) - Len(sub)) : SubSeq(s, i + 1, i + Len(sub)) = sub

failure_indicators ==
    << <<22833, 36133>>,                         \* "失败"
       <<26080, 27861>>,                         \* "无法"
       <<38169, 35823>>,                         \* "错误"
       <<101, 114, 114, 111, 114>>,              \* "error"
       <<102, 97, 105, 108, 101, 100>>,          \* "failed"
       <<99, 97, 110, 110, 111, 116>>,           \* "cannot"
       <<117, 110, 97, 98, 108, 101>> >>         \* "unable"

success_indicators ==
    << <<25104, 21151>>,                                 \* "成功"
       <<23436, 25104>>,                                 \* "完成"
       <<24050, 26174, 31034>>,                          \* "已显示"
       <<115, 117, 99, 99, 101, 115, 115>>,              \* "success"
       <<99, 111, 109, 112, 108, 101, 116, 101, 100>>,   \* "completed"
       <<102, 105, 110, 105, 115, 104, 101, 100>> >>     \* "finished"

\* Fragments an agent output is made of (mixed case, both languages, and two
\* halves that form a failure phrase only when joined).
Fragments ==
    { <<70, 65, 73, 76, 69, 68>>,                \* "FAILED"
      <<69, 114, 114, 111, 114>>,                \* "Error"
      <<85, 110, 97, 98, 108, 101>>,             \* "Unable"
      <<99, 97, 110, 110, 111, 116>>,            \* "cannot"
      <<22833, 36133>>,                          \* "失败"
      <<26080, 27861>>,                          \* "无法"
      <<38169, 35823>>,                          \* "错误"
      <<102, 97, 105, 108>>,                     \* "fail"
      <<101, 100>>,                              \* "ed"
      <<83, 85, 67, 67, 69, 83, 83>>,            \* "SUCCESS"
      <<99, 111, 109, 112, 108, 101, 116, 101, 100>>, \* "completed"
      <<102, 105, 110, 105, 115, 104, 101, 100>>,\* "finished"
      <<25104, 21151>>,                          \* "成功"
      <<23436, 25104>>,                          \* "完成"
      <<24050, 26174, 31034>>,                   \* "已显示"
      <<111, 107>>,                              \* "ok"
      <<32>> }                                   \* " "

RECURSIVE TextsOfLen(_)
TextsOfLen(n) ==
    IF n = 0 THEN {<< >>}
    ELSE {t \o f : t \in TextsOfLen(n - 1), f \in Fragments}

AgentTexts == UNION {TextsOfLen(n) : n \in 0..MaxFragments}

NoneText == [some |-> FALSE, val |-> << >>]
SomeText(t) == [some |-> TRUE, val |-> t]

(***************************************************************************)
(* Verdict evaluator: _parse_agent_result and _apply_validation            *)
(***************************************************************************)
\* ParseAgentResult with the success indicators consulted first.
ParseSuccessFirst(agent_result) ==
    LET result_lower == Lower(agent_result) IN
    IF \E i \in 1..Len(success_indicators) :
           Contains(result_lower, success_indicators[i])
    THEN TRUE
    ELSE ~ \E i \in 1..Len(failure_indicators) :
               Contains(result_lower, failure_indicators[i])

\* ParseAgentResult with a default of fail when nothing explicit is found.
ParseDefaultFail(agent_result) ==
    LET result_lower == Lower(agent_result) IN
    IF \E i \in 1..Len(failure_indicators) :
           Contains(result_lower, failure_indicators[i])
    THEN FALSE
    ELSE \E i \in 1..Len(success_indicators) :
             Contains(result_lower, success_indicators[i])

\* The base verdict read off the agent's free text.
ParseAgentResult(agent_result) ==
    LET result_lower == Lower(agent_result) IN
    IF \E i \in 1..Len(failure_indicators) :
           Contains(result_lower, failure_indicators[i])
    THEN FALSE
    ELSE IF \E i \in 1..Len(success_indicators) :
                Contains(result_lower, success_indicators[i])
         THEN TRUE
         ELSE TRUE      \* default: passed when nothing explicit is found

NoneApp == ""           \* expected_app = None
Raise == "raise"        \* a collaborator call that raised

\* phone_agent.config.apps.APP_PACKAGES: app name -> package, in dict order.
APP_PACKAGES == << <<"AppA", "pkg.a">>, <<"AppB", "pkg.b">> >>

\* The for loop over APP_PACKAGES.items(): the first app name whose package
\* is `ref`, or None.
ExpectedAppName(ref) ==
    LET hits == {i \in 1..Len(APP_PACKAGES) : APP_PACKAGES[i][2] = ref} IN
    IF hits = {} THEN NoneApp
    ELSE APP_PACKAGES[CHOOSE i \in hits : \A j \in hits : i <= j][1]

\* AppMatches without the lookup in the table.
AppMatchesDirect(current_app, expected_app) == current_app = expected_app

\* app_name_match or package_match.
AppMatches(current_app, expected_app) ==
    LET expected_app_name == ExpectedAppName(expected_app) IN
    \/ current_app = expected_app
    \/ expected_app_name # NoneApp /\ current_app = expected_app_name

\* KeywordMatches with letter case set aside.
KeywordMatchesFolded(keywords, agent_result) ==
    SelectSeq(keywords, LAMBDA kw : Contains(Lower(agent_result), Lower(kw)))

\* matches = [kw for kw in keywords if kw in agent_result]
KeywordMatches(keywords, agent_result) ==
    SelectSeq(keywords, LAMBDA kw : Contains(agent_result, kw))

\* ApplyValidation with the predicate's exception let through.
ApplyValidationPropagating(rule, agent_result, appRes, customRes) ==
    CASE rule.validation_type = "app_opened" ->
            IF appRes = Raise
            THEN [raised |-> TRUE,
                  out |-> [name |-> rule.name, passed |-> FALSE, error |-> "device"]]
            ELSE [raised |-> FALSE,
                  out |-> [name |-> rule.name,
                           passed |-> AppMatches(appRes, rule.expected_app),
                           error |-> "none"]]
      [] rule.validation_type = "text_contains" ->
            LET matches == KeywordMatches(rule.keywords, agent_result) IN
            [raised |-> FALSE,
             out |-> [name |-> rule.name,
                      passed |-> IF rule.must_contain_all
                                 THEN Len(matches) = Len(rule.keywords)
                                 ELSE Len(matches) > 0,
                      error |-> "none"]]
      [] rule.validation_type = "custom" ->
            [raised |-> customRes = Raise,
             out |-> [name |-> rule.name, passed |-> (customRes = "true"),
                      error |-> "none"]]
      [] OTHER ->
            [raised |-> FALSE,
             out |-> [name |-> rule.name, passed |-> FALSE,
                      error |-> "Unknown validation type"]]

\* _apply_validation: the outcome of one rule, or the exception that the
\* device lookup let through.  appRes is what get_current_app does (an app,
\* or Raise), customRes what the injected predicate does.
ApplyValidation(rule, agent_result, appRes, customRes) ==
    CASE rule.validation_type = "app_opened" ->
            IF appRes = Raise
            THEN [raised |-> TRUE,
                  out |-> [name |-> rule.name, passed |-> FALSE, error |-> "device"]]
            ELSE [raised |-> FALSE,
                  out |-> [name |-> rule.name,
                           passed |-> AppMatches(appRes, rule.expected_app),
                           error |-> "none"]]
      [] rule.validation_type = "text_contains" ->
            LET matches == KeywordMatches(rule.keywords, agent_result) IN
            [raised |-> FALSE,
             out |-> [name |-> rule.name,
                      passed |-> IF rule.must_contain_all
                                 THEN Len(matches) = Len(rule.keywords)
                                 ELSE Len(matches) > 0,
                      error |-> "none"]]
      [] rule.validation_type = "custom" ->
            IF customRes = Raise
            THEN [raised |-> FALSE,
                  out |-> [name |-> rule.name, passed |-> FALSE, error |-> "exception"]]
            ELSE [raised |-> FALSE,
                  out |-> [name |-> rule.name, passed |-> (customRes = "true"),
                           error |-> "none"]]
      [] OTHER ->
            [raised |-> FALSE,
             out |-> [name |-> rule.name, passed |-> FALSE,
                      error |-> "Unknown validation type"]]

(***************************************************************************)
(* Task execution engine: _execute_task                                    *)
(***************************************************************************)
\* task_result as first built (lines 294-302).
NewTaskResult(task) ==
    [name |-> task.name, passed |-> FALSE, agent_result |-> NoneText,
     additional_validations |-> << >>, error |-> "none", screenshot |-> FALSE]

\* Failed without the exception text.
FailedSilently(tr, why) == [tr EXCEPT !.passed = FALSE]

\* The except branch (lines 385-388).
Failed(tr, why) == [tr EXCEPT !.error = why, !.passed = FALSE]

\* ApplyRules with the verdict set to whatever the rule says.
RECURSIVE ApplyRulesUpgrading(_, _, _, _)
ApplyRulesUpgrading(task, env, i, st) ==
    IF i > Len(task.additional_validations) \/ st.raised THEN st
    ELSE LET r == ApplyValidation(task.additional_validations[i],
                                  env.agent.text, env.app[i], env.custom[i])
         IN IF r.raised
            THEN [tr |-> st.tr, raised |-> TRUE]
            ELSE ApplyRulesUpgrading(task, env, i + 1,
                   [tr |-> [st.tr EXCEPT
                              !.additional_validations = Append(@, r.out),
                              !.passed = r.out.passed],
                    raised |-> FALSE])

\* The loop over additional_validations from rule i on (lines 330-341);
\* st = [tr, raised].  A lookup that raises leaves the loop at once.
RECURSIVE ApplyRules(_, _, _, _)
ApplyRules(task, env, i, st) ==
    IF i > Len(task.additional_validations) \/ st.raised THEN st
    ELSE LET r == ApplyValidation(task.additional_validations[i],
                                  env.agent.text, env.app[i], env.custom[i])
         IN IF r.raised
            THEN [tr |-> st.tr, raised |-> TRUE]
            ELSE ApplyRules(task, env, i + 1,
                   [tr |-> [st.tr EXCEPT
                              !.additional_validations = Append(@, r.out),
                              !.passed = IF r.out.passed THEN @ ELSE FALSE],
                    raised |-> FALSE])

\* The expected_keywords quick check (lines 344-352), guarded by the base
\* verdict `passed`.
KeywordCheck(task, env, passed, tr) ==
    IF passed /\ Len(task.expected_keywords) > 0
       /\ ~ \E k \in 1..Len(task.expected_keywords) :
              Contains(env.agent.text, task.expected_keywords[k])
    THEN [tr EXCEPT !.passed = FALSE]
    ELSE tr

\* Whether the expected_app quick check queries the device (line 354).
AppCheckQueries(task, passed) == passed /\ task.expected_app # NoneApp

\* The expected_app quick check (lines 354-383); appRes is the lookup.
AppCheck(task, appRes, passed, tr) ==
    IF ~ AppCheckQueries(task, passed) THEN tr
    ELSE IF appRes = Raise THEN Failed(tr, "device")
    ELSE IF ~ AppMatches(appRes, task.expected_app)
         THEN [tr EXCEPT !.passed = FALSE]
         ELSE tr

\* _execute_task.  env = [agent |-> [raised, text], shot, app, custom]:
\* what agent.run, the screenshot manager, each device lookup and each
\* custom predicate do during this execution.
ExecuteTask(task, env) ==
    LET tr0 == NewTaskResult(task) IN
    IF env.agent.raised THEN Failed(tr0, "agent")
    ELSE
      LET passed == ParseAgentResult(env.agent.text)
          tr1 == [tr0 EXCEPT !.agent_result = SomeText(env.agent.text),
                             !.passed = passed,
                             !.screenshot = env.shot]
          st == ApplyRules(task, env, 1, [tr |-> tr1, raised |-> FALSE])
      IN IF st.raised THEN Failed(st.tr, "device")
         ELSE AppCheck(task, env.app[Len(task.additional_validations) + 1],
                       passed, KeywordCheck(task, env, passed, st.tr))

(***************************************************************************)
(* Exploration results: _extract_pages_from_result                         *)
(***************************************************************************)
NL == 10    \* "\n"

IsSpace(c) == c \in {9, 10, 11, 12, 13, 32}

\* str.strip()
RECURSIVE LStrip(_)
LStrip(s) == IF s # << >> /\ IsSpace(Head(s)) THEN LStrip(Tail(s)) ELSE s
RECURSIVE RStrip(_)
RStrip(s) ==
    IF s # << >> /\ IsSpace(s[Len(s)]) THEN RStrip(SubSeq(s, 1, Len(s) - 1)) ELSE s
Strip(s) == LStrip(RStrip(s))

\* str.split('\n')
RECURSIVE Split(_, _)
Split(s, cur) ==
    IF s = << >> THEN <<cur>>
    ELSE IF Head(s) = NL THEN <<cur>> \o Split(Tail(s), << >>)
    ELSE Split(Tail(s), Append(cur, Head(s)))

\* str.replace(keyword, ""): every non-overlapping occurrence, left to right.
RECURSIVE Remove(_, _)
Remove(s, keyword) ==
    IF Len(s) < Len(keyword) \/ s = << >> THEN s
    ELSE IF SubSeq(s, 1, Len(keyword)) = keyword
         THEN Remove(SubSeq(s, Len(keyword) + 1, Len(s)), keyword)
         ELSE <<Head(s)>> \o Remove(Tail(s), keyword)

Colon == 65306      \* the full-width colon of "发现页面："
page_markers ==
    << <<21457, 29616, 39029, 38754>>,      \* "发现页面"
       <<36827, 20837, 39029, 38754>>,      \* "进入页面"
       <<25171, 24320, 39029, 38754>> >>    \* "打开页面"
\* The keywords stripped to obtain the page name: with the colon first.
page_name_keywords ==
    << Append(page_markers[1], Colon), Append(page_markers[2], Colon),
       Append(page_markers[3], Colon),
       page_markers[1], page_markers[2], page_markers[3] >>
test_passed_markers ==
    << <<27979, 35797, 36890, 36807>>,      \* "测试通过"
       <<27979, 35797, 25104, 21151>>,      \* "测试成功"
       <<27979, 35797, 23436, 25104>> >>    \* "测试完成"
test_failed_markers ==
    << <<27979, 35797, 22833, 36133>>,      \* "测试失败"
       <<26080, 27861, 27979, 35797>> >>    \* "无法测试"

AnyIn(keywords, line) == \E i \in 1..Len(keywords) : Contains(line, keywords[i])
InSeq(x, seq) == \E i \in 1..Len(seq) : seq[i] = x

NoPage == [set |-> FALSE, page_name |-> << >>, tested |-> FALSE, test_result |-> "unset"]
Page(name) == [set |-> TRUE, page_name |-> name, tested |-> FALSE, test_result |-> "unset"]

\* PageLine taking a test line for a result even when no page is pending.
PageLineUnguarded(st, rawline) ==
    LET line == Strip(rawline) IN
    IF AnyIn(page_markers, line)
    THEN LET flushed == IF st.current_page.set /\ ~ InSeq(st.current_page, st.pages)
                        THEN Append(st.pages, st.current_page) ELSE st.pages
             k == CHOOSE i \in 1..Len(page_name_keywords) :
                     /\ Contains(line, page_name_keywords[i])
                     /\ \A j \in 1..(i - 1) : ~ Contains(line, page_name_keywords[j])
         IN [pages |-> flushed,
             current_page |-> Page(Strip(Remove(line, page_name_keywords[k])))]
    ELSE IF AnyIn(test_passed_markers, line)
    THEN [pages |-> Append(st.pages, [st.current_page EXCEPT
                                        !.tested = TRUE, !.test_result = "passed"]),
          current_page |-> NoPage]
    ELSE IF AnyIn(test_failed_markers, line)
    THEN [pages |-> Append(st.pages, [st.current_page EXCEPT
                                        !.tested = TRUE, !.test_result = "failed"]),
          current_page |-> NoPage]
    ELSE st

\* PageLine forgetting the pending page when the next page line comes.
PageLineDropsPending(st, rawline) ==
    LET line == Strip(rawline) IN
    IF AnyIn(page_markers, line)
    THEN LET flushed == st.pages
             k == CHOOSE i \in 1..Len(page_name_keywords) :
                     /\ Contains(line, page_name_keywords[i])
                     /\ \A j \in 1..(i - 1) : ~ Contains(line, page_name_keywords[j])
         IN [pages |-> flushed,
             current_page |-> Page(Strip(Remove(line, page_name_keywords[k])))]
    ELSE IF st.current_page.set /\ AnyIn(test_passed_markers, line)
    THEN [pages |-> Append(st.pages, [st.current_page EXCEPT
                                        !.tested = TRUE, !.test_result = "passed"]),
          current_page |-> NoPage]
    ELSE IF st.current_page.set /\ AnyIn(test_failed_markers, line)
    THEN [pages |-> Append(st.pages, [st.current_page EXCEPT
                                        !.tested = TRUE, !.test_result = "failed"]),
          current_page |-> NoPage]
    ELSE st

\* PageLine leaving the page pending after its test line.
PageLineKeepsPending(st, rawline) ==
    LET line == Strip(rawline) IN
    IF AnyIn(page_markers, line)
    THEN LET flushed == IF st.current_page.set /\ ~ InSeq(st.current_page, st.pages)
                        THEN Append(st.pages, st.current_page) ELSE st.pages
             k == CHOOSE i \in 1..Len(page_name_keywords) :
                     /\ Contains(line, page_name_keywords[i])
                     /\ \A j \in 1..(i - 1) : ~ Contains(line, page_name_keywords[j])
         IN [pages |-> flushed,
             current_page |-> Page(Strip(Remove(line, page_name_keywords[k])))]
    ELSE IF st.current_page.set /\ AnyIn(test_passed_markers, line)
    THEN [pages |-> Append(st.pages, [st.current_page EXCEPT
                                        !.tested = TRUE, !.test_result = "passed"]),
          current_page |-> st.current_page]
    ELSE IF st.current_page.set /\ AnyIn(test_failed_markers, line)
    THEN [pages |-> Append(st.pages, [st.current_page EXCEPT
                                        !.tested = TRUE, !.test_result = "failed"]),
          current_page |-> st.current_page]
    ELSE st

\* PageLine with a test-passed line that records the result and leaves
\* `tested` as it was.
PageLineTestedUnmarked(st, rawline) ==
    LET line == Strip(rawline) IN
    IF AnyIn(page_markers, line)
    THEN LET flushed == IF st.current_page.set /\ ~ InSeq(st.current_page, st.pages)
                        THEN Append(st.pages, st.current_page) ELSE st.pages
             k == CHOOSE i \in 1..Len(page_name_keywords) :
                     /\ Contains(line, page_name_keywords[i])
                     /\ \A j \in 1..(i - 1) : ~ Contains(line, page_name_keywords[j])
         IN [pages |-> flushed,
             current_page |-> Page(Strip(Remove(line, page_name_keywords[k])))]
    ELSE IF st.current_page.set /\ AnyIn(test_passed_markers, line)
    THEN [pages |-> Append(st.pages, [st.current_page EXCEPT
                                        !.test_result = "passed"]),
          current_page |-> NoPage]
    ELSE IF st.current_page.set /\ AnyIn(test_failed_markers, line)
    THEN [pages |-> Append(st.pages, [st.current_page EXCEPT
                                        !.tested = TRUE, !.test_result = "failed"]),
          current_page |-> NoPage]
    ELSE st

\* One line of the for loop (lines 673-698); st = [pages, current_page].
PageLine(st, rawline) ==
    LET line == Strip(rawline) IN
    IF AnyIn(page_markers, line)
    THEN LET flushed == IF st.current_page.set /\ ~ InSeq(st.current_page, st.pages)
                        THEN Append(st.pages, st.current_page) ELSE st.pages
             k == CHOOSE i \in 1..Len(page_name_keywords) :
                     /\ Contains(line, page_name_keywords[i])
                     /\ \A j \in 1..(i - 1) : ~ Contains(line, page_name_keywords[j])
         IN [pages |-> flushed,
             current_page |-> Page(Strip(Remove(line, page_name_keywords[k])))]
    ELSE IF st.current_page.set /\ AnyIn(test_passed_markers, line)
    THEN [pages |-> Append(st.pages, [st.current_page EXCEPT
                                        !.tested = TRUE, !.test_result = "passed"]),
          current_page |-> NoPage]
    ELSE IF st.current_page.set /\ AnyIn(test_failed_markers, line)
    THEN [pages |-> Append(st.pages, [st.current_page EXCEPT
                                        !.tested = TRUE, !.test_result = "failed"]),
          current_page |-> NoPage]
    ELSE st

RECURSIVE PageLines(_, _)
PageLines(st, lines) ==
    IF lines = << >> THEN st ELSE PageLines(PageLine(st, Head(lines)), Tail(lines))

\* _extract_pages_from_result on a string.
ExtractPages(agent_result) ==
    LET st == PageLines([pages |-> << >>, current_page |-> NoPage],
                        Split(agent_result, << >>))
    IN IF st.current_page.set /\ ~ InSeq(st.current_page, st.pages)
       THEN Append(st.pages, st.current_page) ELSE st.pages

(***************************************************************************)
(* Notification dispatch: NotificationManager                              *)
(***************************************************************************)
\* NotificationManager.NOTIFIER_TYPES: <<config key, notifier class>>.
NOTIFIER_TYPES == << <<"lark", "LarkNotifier">> >>

\* _initialize_notifiers with LarkNotifier.__init__: one notifier per type
\* whose configuration says enabled; a LarkNotifier without webhook_url
\* turns its own `enabled` off and is appended all the same.
InitializeNotifiers(config) ==
    LET Build(i) == [type |-> NOTIFIER_TYPES[i][2],
                     enabled |-> config[NOTIFIER_TYPES[i][1]].webhook_url]
        keep == SelectSeq([i \in 1..Len(NOTIFIER_TYPES) |-> i],
                          LAMBDA i : config[NOTIFIER_TYPES[i][1]].enabled)
    IN [k \in 1..Len(keep) |-> Build(keep[k])]

has_enabled_notifiers == Len(notifiers) > 0

\* LarkNotifier.send_notification up to the outbound request: whether a
\* delivery is attempted at all.
DeliveryAttempted(notifier, res) == notifier.enabled /\ res.failed_tasks # 0

\* SendFailureNotification with the loop left at the first notifier that
\* raises.
SendStopsAtRaise(res, outcome) ==
    IF Len(notifiers) = 0 THEN << >>
    ELSE IF res.failed_tasks = 0 THEN << >>
    ELSE LET sent == {i \in 1..Len(notifiers) :
                        \A j \in 1..i : ~ (DeliveryAttempted(notifiers[j], res)
                                            /\ outcome[j] = Raise)}
             idx(t) == CHOOSE i \in sent :
                          /\ notifiers[i].type = t
                          /\ \A j \in sent : j > i => notifiers[j].type # t
         IN [t \in {notifiers[i].type : i \in sent} |->
               DeliveryAttempted(notifiers[idx(t)], res) /\ outcome[idx(t)] = "true"]

\* send_failure_notification: the result map.  outcome[i] is what the
\* i-th notifier's delivery does ("true", "false" or Raise).
SendFailureNotification(res, outcome) ==
    IF Len(notifiers) = 0 THEN << >>
    ELSE IF res.failed_tasks = 0 THEN << >>
    ELSE LET idx(t) == CHOOSE i \in 1..Len(notifiers) :
                          /\ notifiers[i].type = t
                          /\ \A j \in (i + 1)..Len(notifiers) : notifiers[j].type # t
         IN [t \in {notifiers[i].type : i \in 1..Len(notifiers)} |->
               DeliveryAttempted(notifiers[idx(t)], res) /\ outcome[idx(t)] = "true"]

\* The for loop of send_failure_notification from notifier i on (lines
\* 78-86): acc.map is results_map so far, acc.log the notifiers that have
\* attempted a delivery, in the order of the attempts.
RECURSIVE SendLoop(_, _, _, _)
SendLoop(res, outcome, i, acc) ==
    IF i > Len(notifiers) THEN acc
    ELSE LET notifier == notifiers[i]
             attempted == DeliveryAttempted(notifier, res)
             success == attempted /\ outcome[i] = "true"
             entry == [t \in {notifier.type} |-> success]
         IN SendLoop(res, outcome, i + 1,
                     [map |-> entry @@ acc.map,
                      log |-> IF attempted THEN Append(acc.log, i) ELSE acc.log])

\* The deliveries send_failure_notification makes attempt (lines 72-86).
DeliveryLog(res, outcome) ==
    IF Len(notifiers) = 0 \/ res.failed_tasks = 0 THEN << >>
    ELSE SendLoop(res, outcome, 1, [map |-> << >>, log |-> << >>]).log

(***************************************************************************)
(* Patrol configurations                                                   *)
(***************************************************************************)
ExploreTaskName == "auto_explore_app"    \* the name "自动探索应用"
TaskNames == <<"task1", "task2", "task3", "task4">>

NoneInt == [some |-> FALSE, val |-> 0]
SomeInt(n) == [some |-> TRUE, val |-> n]
\* Python truthiness of an optional int.
Truthy(n) == n.some /\ n.val # 0

CustomRule == [name |-> "custom", validation_type |-> "custom",
               expected_app |-> NoneApp, keywords |-> << >>, must_contain_all |-> FALSE]
AppRule(app) == [name |-> "app", validation_type |-> "app_opened",
                 expected_app |-> app, keywords |-> << >>, must_contain_all |-> FALSE]
TextRule(kws, all) == [name |-> "text", validation_type |-> "text_contains",
                       expected_app |-> NoneApp, keywords |-> kws, must_contain_all |-> all]

Task(name, enabled, rules, kws, app) ==
    [name |-> name, enabled |-> enabled, additional_validations |-> rules,
     expected_keywords |-> kws, expected_app |-> app]

\* The tasks that may stand at position i of a task list.
TaskChoices(i) ==
    { Task(TaskNames[i], TRUE, << >>, << >>, NoneApp),
      Task(TaskNames[i], FALSE, << >>, << >>, NoneApp),
      Task(ExploreTaskName, TRUE, << >>, << >>, NoneApp),
      Task(TaskNames[i], TRUE, <<CustomRule>>, << >>, "pkg.a") }

\* The same without validation rules, for the task lists of scheduled patrols.
PlainTaskChoices(i) == {t \in TaskChoices(i) : t.additional_validations = << >>}

RECURSIVE TaskLists(_, _)
TaskLists(n, plain) ==
    IF n = 0 THEN {<< >>}
    ELSE {Append(l, t) : l \in TaskLists(n - 1, plain),
                         t \in IF plain THEN PlainTaskChoices(n) ELSE TaskChoices(n)}

\* notifications.lark: off, on with a webhook URL, on without one.
NotificationChoices ==
    {[lark |-> [enabled |-> e, webhook_url |-> w]] :
        e \in BOOLEAN, w \in BOOLEAN} \ {[lark |-> [enabled |-> FALSE, webhook_url |-> TRUE]]}

\* PatrolConfig.__post_init__: at least one task, or auto_patrol enabled.
ValidConfig(c) == Len(c.tasks) > 0 \/ c.auto_patrol.enabled

OffSchedule == [enabled |-> FALSE, success_interval |-> 0,
                failure_interval |-> 0, max_runs |-> NoneInt]

\* Texts the agent returns during a whole patrol.
TxtFailed == <<70, 65, 73, 76, 69, 68>>                      \* "FAILED"
TxtOk == <<111, 107>>                                        \* "ok"
TxtPage == page_markers[1] \o <<Colon, 65, NL>> \o test_passed_markers[1]
PassTexts == {TxtFailed, TxtPage}            \* during a single pass
SchedTexts == {TxtOk}                        \* during a scheduled patrol

AppResults == {"AppA", "Home", Raise}
CustomResults == {"true", "false", Raise}

\* What the collaborators may do during one execution of `task`: the agent
\* call, the screenshot, one device lookup per AppOpened rule and for the
\* expected_app check, one call per Custom predicate.  A lookup or predicate
\* the task has no use for is left at a fixed value.
TaskEnvs(task, texts, shots) ==
    LET n == Len(task.additional_validations)
        Kind(i) == task.additional_validations[i].validation_type
        AppAt(i) == IF i <= n
                    THEN (IF Kind(i) = "app_opened" THEN AppResults ELSE {"Home"})
                    ELSE (IF task.expected_app # NoneApp THEN AppResults ELSE {"Home"})
        CustomAt(i) == IF Kind(i) = "custom" THEN CustomResults ELSE {"true"}
    IN {[agent |-> a, shot |-> sh, app |-> ap, custom |-> cu] :
          a \in {[raised |-> TRUE, text |-> << >>]}
                \cup {[raised |-> FALSE, text |-> t] : t \in texts},
          sh \in shots,
          ap \in {f \in [1..(n + 1) -> AppResults] : \A i \in 1..(n + 1) : f[i] \in AppAt(i)},
          cu \in {f \in [1..n -> CustomResults] : \A i \in 1..n : f[i] \in CustomAt(i)}}

(***************************************************************************)
(* Patrol run orchestrator: _execute_single_patrol                         *)
(***************************************************************************)
InPass == pc \in {"tasks", "cleanup", "explore", "notify"}

EnabledTasks(tasks) == SelectSeq(tasks, LAMBDA t : t.enabled)

\* `results` as first built (lines 217-230).  Time is logical: a stamp names
\* the pass and the moment, a duration counts the agent calls of the pass.
NewResults(run) ==
    [patrol_name |-> cfg.name, description |-> cfg.description,
     start_time |-> <<run, "start">>,
     total_tasks |-> Len(EnabledTasks(cfg.tasks)),
     passed_tasks |-> 0, failed_tasks |-> 0, tasks |-> << >>]

\* The for loop meets a disabled task: continue (lines 234-235).
SkipDisabledTask ==
    /\ pc = "tasks"
    /\ taskIdx <= Len(cfg.tasks)
    /\ ~ cfg.tasks[taskIdx].enabled
    /\ taskIdx' = taskIdx + 1
    /\ UNCHANGED <<cfg, notifiers, exit, pc, run_count, all_results, result, results,
                   interval, remaining, returned, resets, homeLog, dispatched,
                   slicesAfterExit, tcase, tres>>

\* ContinuesAfter without the continue_on_error test.
ContinuesAlways(task_result) == TRUE

\* Whether the loop goes on after task_result (lines 242-250).
ContinuesAfter(task_result) == task_result.passed \/ cfg.continue_on_error

\* Record counting every task_result as passed.
RecordAllPassed(res, task_result) ==
    [res EXCEPT !.tasks = Append(@, task_result),
                !.passed_tasks = @ + 1]

\* Record with the new task_result put in front.
RecordInFront(res, task_result) ==
    [res EXCEPT !.tasks = <<task_result>> \o @,
                !.passed_tasks = IF task_result.passed THEN @ + 1 ELSE @,
                !.failed_tasks = IF task_result.passed THEN @ ELSE @ + 1]

\* `results` after one more task_result (lines 240-245).
Record(res, task_result) ==
    [res EXCEPT !.tasks = Append(@, task_result),
                !.passed_tasks = IF task_result.passed THEN @ + 1 ELSE @,
                !.failed_tasks = IF task_result.passed THEN @ ELSE @ + 1]

\* One enabled task is executed and recorded (lines 237-250).
RunTask ==
    /\ pc = "tasks"
    /\ taskIdx <= Len(cfg.tasks)
    /\ cfg.tasks[taskIdx].enabled
    /\ \E env \in TaskEnvs(cfg.tasks[taskIdx], cfg.agent_texts, {cfg.save_screenshots}) :
         LET task_result == ExecuteTask(cfg.tasks[taskIdx], env) IN
         /\ results' = Record(results, task_result)
         /\ IF ContinuesAfter(task_result)
            THEN pc' = pc /\ taskIdx' = taskIdx + 1
            ELSE pc' = "cleanup" /\ taskIdx' = taskIdx
    /\ UNCHANGED <<cfg, notifiers, exit, run_count, all_results, result,
                   interval, remaining, returned, resets, homeLog, dispatched,
                   slicesAfterExit, tcase, tres>>

\* The for loop runs out of tasks.
EndTaskLoop ==
    /\ pc = "tasks"
    /\ taskIdx > Len(cfg.tasks)
    /\ pc' = "cleanup"
    /\ UNCHANGED <<cfg, notifiers, exit, run_count, all_results, result, results,
                   taskIdx, interval, remaining, returned, resets, homeLog,
                   dispatched, slicesAfterExit, tcase, tres>>

\* apps_to_close (lines 572-584): every reference of every task, enabled or not.
AppsToClose ==
    LET refs == {cfg.tasks[i].expected_app : i \in 1..Len(cfg.tasks)}
                \cup UNION {{cfg.tasks[i].additional_validations[j].expected_app :
                               j \in 1..Len(cfg.tasks[i].additional_validations)} :
                            i \in 1..Len(cfg.tasks)}
    IN refs \ {NoneApp}

\* The app name cleanup resolves a reference to (lines 591-600).
CloseName(app_ref) ==
    IF \E i \in 1..Len(APP_PACKAGES) : APP_PACKAGES[i][2] = app_ref
    THEN ExpectedAppName(app_ref)
    ELSE app_ref

\* Cleanup with the for loop over apps_to_close left at a home() that raises:
\* the apps after it are not returned from.
CleanupAbortsOnRaise ==
    /\ pc = "cleanup"
    /\ IF cfg.close_app_after_patrol
       THEN \E outcome \in [{r \in AppsToClose : CloseName(r) # NoneApp} -> {"ok", Raise}] :
               IF \E r \in DOMAIN outcome : outcome[r] = Raise
               THEN \E r \in {q \in DOMAIN outcome : outcome[q] = Raise} :
                       homeLog' = [q \in {r} |-> Raise]
               ELSE homeLog' = outcome
       ELSE homeLog' = << >>
    /\ results' = results @@ [end_time |-> <<run_count, "end">>,
                              total_duration |-> Len(results.tasks)]
    /\ pc' = "explore"
    /\ UNCHANGED <<cfg, notifiers, exit, run_count, all_results, result, taskIdx,
                   interval, remaining, returned, resets, dispatched,
                   slicesAfterExit, tcase, tres>>

\* Lines 252-258: best-effort cleanup, then end_time and total_duration.
\* home() is called once for every reference that resolves to a name, and
\* may raise for any of them.
Cleanup ==
    /\ pc = "cleanup"
    /\ IF cfg.close_app_after_patrol
       THEN \E outcome \in [{r \in AppsToClose : CloseName(r) # NoneApp} -> {"ok", Raise}] :
               homeLog' = outcome
       ELSE homeLog' = << >>
    /\ results' = results @@ [end_time |-> <<run_count, "end">>,
                              total_duration |-> Len(results.tasks)]
    /\ pc' = "explore"
    /\ UNCHANGED <<cfg, notifiers, exit, run_count, all_results, result, taskIdx,
                   interval, remaining, returned, resets, dispatched,
                   slicesAfterExit, tcase, tres>>

\* The first task result named as the exploration task (lines 631-635).
ExplorationTask(res) ==
    LET hits == {i \in 1..Len(res.tasks) : res.tasks[i].name = ExploreTaskName} IN
    IF hits = {} THEN 0 ELSE CHOOSE i \in hits : \A j \in hits : i <= j

\* _parse_exploration_results raises: the exploration task holds
\* agent_result = None, and None has no split().
ExplorationRaises(res) ==
    /\ ExplorationTask(res) # 0
    /\ ~ res.tasks[ExplorationTask(res)].agent_result.some

\* _parse_exploration_results when it returns (lines 637-652).
ParseExplorationResults(res) ==
    IF ExplorationTask(res) = 0 THEN res
    ELSE LET exploration_task == res.tasks[ExplorationTask(res)]
             discovered_pages == ExtractPages(exploration_task.agent_result.val)
         IN res @@ [discovered_pages |-> discovered_pages,
                    exploration_summary |->
                      [total_pages_discovered |-> Len(discovered_pages),
                       pages_tested |->
                          Len(SelectSeq(discovered_pages, LAMBDA p : p.tested)),
                       exploration_completed |-> exploration_task.passed]]

\* Lines 260-262, when nothing raises.
Explore ==
    /\ pc = "explore"
    /\ ~ (cfg.auto_patrol.enabled /\ ExplorationRaises(results))
    /\ results' = IF cfg.auto_patrol.enabled
                  THEN ParseExplorationResults(results) ELSE results
    /\ pc' = "notify"
    /\ UNCHANGED <<cfg, notifiers, exit, run_count, all_results, result, taskIdx,
                   interval, remaining, returned, resets, homeLog, dispatched,
                   slicesAfterExit, tcase, tres>>

\* Lines 260-262, when _extract_pages_from_result(None) raises: nothing in
\* _execute_single_patrol, _execute_scheduled_patrol or execute catches it.
ExploreCrash ==
    /\ pc = "explore"
    /\ cfg.auto_patrol.enabled /\ ExplorationRaises(results)
    /\ pc' = "crashed"
    /\ UNCHANGED <<cfg, notifiers, exit, run_count, all_results, result, results,
                   taskIdx, interval, remaining, returned, resets, homeLog,
                   dispatched, slicesAfterExit, tcase, tres>>

NotCalled == [called |-> FALSE, map |-> << >>]

\* Lines 264-275 and the return: in a scheduled patrol the caller appends
\* the summary (lines 150-151), otherwise execute() returns it.
NotifyAndReturn ==
    /\ pc = "notify"
    /\ IF has_enabled_notifiers
       THEN \E outcome \in [1..Len(notifiers) -> {"true", "false", Raise}] :
              dispatched' = [called |-> TRUE,
                             map |-> SendFailureNotification(results, outcome)]
       ELSE dispatched' = NotCalled
    /\ IF cfg.scheduled_patrol.enabled
       THEN /\ result' = results
            /\ all_results' = Append(all_results, results)
            /\ pc' = "post_pass"
            /\ UNCHANGED returned
       ELSE /\ returned' = results
            /\ pc' = "done"
            /\ UNCHANGED <<result, all_results>>
    /\ UNCHANGED <<cfg, notifiers, exit, run_count, results, taskIdx,
                   interval, remaining, resets, homeLog, slicesAfterExit, tcase, tres>>

(***************************************************************************)
(* Scheduled controller: execute, _execute_scheduled_patrol                *)
(***************************************************************************)
\* execute() (lines 111-114) and what each branch first does.
Execute ==
    /\ pc = "start"
    /\ IF cfg.scheduled_patrol.enabled
       THEN pc' = "loop" /\ UNCHANGED <<results, taskIdx>>
       ELSE pc' = "tasks" /\ results' = NewResults(run_count) /\ taskIdx' = 1
    /\ UNCHANGED <<cfg, notifiers, exit, run_count, all_results, result,
                   interval, remaining, returned, resets, homeLog, dispatched,
                   slicesAfterExit, tcase, tres>>

\* Whether the run cap stops the loop (lines 135 and 184).
CapReached(max_runs, count) == Truthy(max_runs) /\ count >= max_runs.val

\* LoopContinues without the test of the flag.
LoopIgnoresExit == ~ CapReached(cfg.scheduled_patrol.max_runs, run_count)

\* Whether the while loop goes round again (lines 133-137).
LoopContinues == ~ exit /\ ~ CapReached(cfg.scheduled_patrol.max_runs, run_count)

\* Lines 133-137: the while condition and the cap; the loop ends, or its
\* body is entered.  The handler can run between this test and the pass.
LoopHead ==
    /\ pc = "loop"
    /\ IF LoopContinues
       THEN /\ Truthy(cfg.scheduled_patrol.max_runs) \/ run_count < MaxPasses
            /\ pc' = "begin"
       ELSE pc' = "summary"
    /\ UNCHANGED <<cfg, notifiers, exit, run_count, all_results, result, results,
                   taskIdx, interval, remaining, returned, resets, homeLog,
                   dispatched, slicesAfterExit, tcase, tres>>

\* BeginPass with the agent reset before every pass, the first included.
BeginPassResetsAlways ==
    /\ pc = "begin"
    /\ run_count' = run_count + 1
    /\ resets' = resets + 1
    /\ results' = NewResults(run_count')
    /\ taskIdx' = 1
    /\ pc' = "tasks"
    /\ UNCHANGED <<cfg, notifiers, exit, all_results, result, interval, remaining,
                   returned, homeLog, dispatched, slicesAfterExit, tcase, tres>>

\* Lines 139-150: the count, the reset between passes, and the pass begins.
BeginPass ==
    /\ pc = "begin"
    /\ run_count' = run_count + 1
    /\ resets' = IF run_count' > 1 THEN resets + 1 ELSE resets
    /\ results' = NewResults(run_count')
    /\ taskIdx' = 1
    /\ pc' = "tasks"
    /\ UNCHANGED <<cfg, notifiers, exit, all_results, result, interval, remaining,
                   returned, homeLog, dispatched, slicesAfterExit, tcase, tres>>

\* NextInterval taking a pass without tasks for a failed one.
NextIntervalNeedsTasks(res) ==
    IF res.total_tasks > 0 /\ res.passed_tasks = res.total_tasks
    THEN cfg.scheduled_patrol.success_interval
    ELSE cfg.scheduled_patrol.failure_interval

\* NextInterval with the two intervals exchanged.
NextIntervalExchanged(res) ==
    IF res.passed_tasks = res.total_tasks
    THEN cfg.scheduled_patrol.failure_interval
    ELSE cfg.scheduled_patrol.success_interval

\* The interval after `res` (lines 163-170).
NextInterval(res) ==
    IF res.passed_tasks = res.total_tasks
    THEN cfg.scheduled_patrol.success_interval
    ELSE cfg.scheduled_patrol.failure_interval

\* PostPass with a second dispatch by the controller for the pass just
\* appended, before the flag is looked at.
PostPassDispatchesAgain ==
    /\ pc = "post_pass"
    /\ dispatched' = [called |-> TRUE,
                      map |-> SendFailureNotification(result,
                                  [i \in 1..Len(notifiers) |-> "true"])]
    /\ IF exit
       THEN pc' = "summary" /\ UNCHANGED interval
       ELSE pc' = "pre_wait" /\ interval' = NextInterval(result)
    /\ UNCHANGED <<cfg, notifiers, exit, run_count, all_results, result, results,
                   taskIdx, remaining, returned, resets, homeLog,
                   slicesAfterExit, tcase, tres>>

\* Lines 158-180: stop on the flag, otherwise choose the interval.
PostPass ==
    /\ pc = "post_pass"
    /\ IF exit
       THEN pc' = "summary" /\ UNCHANGED interval
       ELSE pc' = "pre_wait" /\ interval' = NextInterval(result)
    /\ UNCHANGED <<cfg, notifiers, exit, run_count, all_results, result, results,
                   taskIdx, remaining, returned, resets, homeLog, dispatched,
                   slicesAfterExit, tcase, tres>>

\* PreWait without the test of the cap: a wait follows the last pass too.
PreWaitAlwaysWaits ==
    /\ pc = "pre_wait"
    /\ IF exit THEN pc' = "loop" /\ UNCHANGED remaining
       ELSE pc' = "wait_check" /\ remaining' = interval
    /\ UNCHANGED <<cfg, notifiers, exit, run_count, all_results, result, results,
                   taskIdx, interval, returned, resets, homeLog, dispatched,
                   slicesAfterExit, tcase, tres>>

\* Lines 183-192: no wait after the last pass or with the flag set.
PreWait ==
    /\ pc = "pre_wait"
    /\ IF exit THEN pc' = "loop" /\ UNCHANGED remaining
       ELSE IF CapReached(cfg.scheduled_patrol.max_runs, run_count)
       THEN pc' = "summary" /\ UNCHANGED remaining
       ELSE pc' = "wait_check" /\ remaining' = interval
    /\ UNCHANGED <<cfg, notifiers, exit, run_count, all_results, result, results,
                   taskIdx, interval, returned, resets, homeLog, dispatched,
                   slicesAfterExit, tcase, tres>>

\* WaitCheck leaving the wait for the loop body, past the while condition.
WaitCheckIntoBody ==
    /\ pc = "wait_check"
    /\ pc' = IF remaining > 0 /\ ~ exit THEN "wait_sleep" ELSE "begin"
    /\ UNCHANGED <<cfg, notifiers, exit, run_count, all_results, result, results,
                   taskIdx, interval, remaining, returned, resets, homeLog,
                   dispatched, slicesAfterExit, tcase, tres>>

\* WaitContinues without the test of the flag.
WaitIgnoresExit == remaining > 0

\* Whether _wait_with_interrupt_check sleeps another slice (line 713).
WaitContinues == remaining > 0 /\ ~ exit

\* _wait_with_interrupt_check, the loop condition (line 713).
WaitCheck ==
    /\ pc = "wait_check"
    /\ pc' = IF WaitContinues THEN "wait_sleep" ELSE "loop"
    /\ UNCHANGED <<cfg, notifiers, exit, run_count, all_results, result, results,
                   taskIdx, interval, remaining, returned, resets, homeLog,
                   dispatched, slicesAfterExit, tcase, tres>>

\* One slice of at most a second ends (lines 714-716).
WaitSleep ==
    /\ pc = "wait_sleep"
    /\ remaining' = remaining - (IF remaining < 1 THEN remaining ELSE 1)
    /\ slicesAfterExit' = IF exit THEN slicesAfterExit + 1 ELSE slicesAfterExit
    /\ pc' = "wait_check"
    /\ UNCHANGED <<cfg, notifiers, exit, run_count, all_results, result, results,
                   taskIdx, interval, returned, resets, homeLog, dispatched,
                   tcase, tres>>

\* The text line 751 puts after the description, in ASCII.
SummarySuffix == " (scheduled patrol summary)"

\* Lines 754-756: the percentage of successful runs, rounded down.
SuccessRate(successful_runs, total_runs) ==
    IF total_runs > 0 THEN (successful_runs * 100) \div total_runs ELSE 0

\* GenerateScheduledSummary reporting the first entry of the history where
\* the last one belongs.
GenerateSummaryOfFirst(results_list, total_runs) ==
    IF results_list = << >>
    THEN [patrol_name |-> cfg.name, description |-> cfg.description,
          total_runs |-> 0, successful_runs |-> 0, failed_runs |-> 0,
          start_time |-> <<total_runs, "now">>, end_time |-> <<total_runs, "now">>]
    ELSE LET first == results_list[1]
             successful_runs ==
                 Len(SelectSeq(results_list,
                               LAMBDA r : r.passed_tasks = r.total_tasks))
             summary ==
                 [patrol_name |-> cfg.name,
                  description |-> cfg.description \o SummarySuffix,
                  total_runs |-> total_runs,
                  successful_runs |-> successful_runs,
                  failed_runs |-> total_runs - successful_runs,
                  success_rate |-> SuccessRate(successful_runs, total_runs),
                  start_time |-> first.start_time,
                  end_time |-> first.end_time,
                  total_tasks |-> first.total_tasks,
                  passed_tasks |-> first.passed_tasks,
                  failed_tasks |-> first.failed_tasks,
                  last_result |-> first]
         IN IF "discovered_pages" \in DOMAIN first
            THEN summary @@ [discovered_pages |-> first.discovered_pages,
                             exploration_summary |-> first.exploration_summary]
            ELSE summary

\* GenerateScheduledSummary counting every run of the history as successful.
GenerateSummaryAllSuccessful(results_list, total_runs) ==
    IF results_list = << >>
    THEN [patrol_name |-> cfg.name, description |-> cfg.description,
          total_runs |-> 0, successful_runs |-> 0, failed_runs |-> 0,
          start_time |-> <<total_runs, "now">>, end_time |-> <<total_runs, "now">>]
    ELSE LET last == results_list[Len(results_list)]
         IN [patrol_name |-> cfg.name,
             description |-> cfg.description \o SummarySuffix,
             total_runs |-> total_runs,
             successful_runs |-> total_runs,
             failed_runs |-> 0,
             success_rate |-> SuccessRate(total_runs, total_runs),
             start_time |-> results_list[1].start_time,
             end_time |-> last.end_time,
             total_tasks |-> last.total_tasks,
             passed_tasks |-> last.passed_tasks,
             failed_tasks |-> last.failed_tasks,
             last_result |-> last]

\* _generate_scheduled_summary.
GenerateScheduledSummary(results_list, total_runs) ==
    IF results_list = << >>
    THEN [patrol_name |-> cfg.name, description |-> cfg.description,
          total_runs |-> 0, successful_runs |-> 0, failed_runs |-> 0,
          start_time |-> <<total_runs, "now">>, end_time |-> <<total_runs, "now">>]
    ELSE LET last == results_list[Len(results_list)]
             successful_runs ==
                 Len(SelectSeq(results_list,
                               LAMBDA r : r.passed_tasks = r.total_tasks))
             RECURSIVE Sum(_)
             Sum(l) == IF l = << >> THEN 0 ELSE Head(l).total_duration + Sum(Tail(l))
             summary ==
                 [patrol_name |-> cfg.name,
                  description |-> cfg.description \o SummarySuffix,
                  total_runs |-> total_runs,
                  successful_runs |-> successful_runs,
                  failed_runs |-> total_runs - successful_runs,
                  success_rate |-> SuccessRate(successful_runs, total_runs),
                  start_time |-> results_list[1].start_time,
                  end_time |-> last.end_time,
                  total_duration |-> Sum(results_list),
                  total_tasks |-> last.total_tasks,
                  passed_tasks |-> last.passed_tasks,
                  failed_tasks |-> last.failed_tasks,
                  last_result |-> last]
         IN IF "discovered_pages" \in DOMAIN last
            THEN summary @@ [discovered_pages |-> last.discovered_pages,
                             exploration_summary |-> last.exploration_summary]
            ELSE summary

\* The keys _generate_markdown_report and _generate_scheduled_patrol_report
\* read from `res` by subscript, without a default (reporter.py).
ReportReads(res) ==
    IF "total_runs" \in DOMAIN res /\ res.total_runs > 1
    THEN {"start_time", "end_time", "total_duration", "total_runs",
          "successful_runs", "failed_runs", "success_rate"}
    ELSE {"total_tasks", "passed_tasks", "start_time", "end_time",
          "total_duration", "failed_tasks", "tasks"}

\* The keys main() reads from the result by subscript (cli.py).
CliReads == {"total_tasks", "passed_tasks", "failed_tasks"}

\* Line 195: the loop is left and the cumulative summary returned.
Summarise ==
    /\ pc = "summary"
    /\ returned' = GenerateScheduledSummary(all_results, run_count)
    /\ pc' = "done"
    /\ UNCHANGED <<cfg, notifiers, exit, run_count, all_results, result, results,
                   taskIdx, interval, remaining, resets, homeLog, dispatched,
                   slicesAfterExit, tcase, tres>>

\* GracefulExit.signal_handler: SIGINT arrives, at any moment of the run.
Signal ==
    /\ pc \notin {"done", "crashed", "idle"}
    /\ ~ exit
    /\ exit' = TRUE
    /\ UNCHANGED <<cfg, notifiers, pc, run_count, all_results, result, results,
                   taskIdx, interval, remaining, returned, resets, homeLog,
                   dispatched, slicesAfterExit, tcase, tres>>

(***************************************************************************)
(* Initial states and specifications                                       *)
(***************************************************************************)
\* The patrol configurations over the given task lists and schedules;
\* agent_texts is not part of PatrolConfig: it bounds what agent.run returns.
Configs(lists, schedules, closes, notifs, texts) ==
    {c \in [name : {"patrol"}, description : {"d"},
            tasks : lists,
            auto_patrol : {[enabled |-> a] : a \in BOOLEAN},
            scheduled_patrol : schedules,
            continue_on_error : BOOLEAN,
            close_app_after_patrol : closes,
            save_screenshots : {FALSE},
            notifications : notifs,
            agent_texts : {texts}] : ValidConfig(c)}

Schedules ==
    {[enabled |-> TRUE, success_interval |-> s, failure_interval |-> f, max_runs |-> m] :
        s \in {0, MaxInterval}, f \in {0, MaxInterval},
        m \in {NoneInt} \cup {SomeInt(n) : n \in 0..MaxRuns}}

NoCase == [task |-> Task("none", FALSE, << >>, << >>, NoneApp), text |-> << >>]

\* The state PatrolExecutor.__init__ leaves, for configuration c.
Constructed(c) ==
    /\ cfg = c
    /\ notifiers = InitializeNotifiers(c.notifications)
    /\ exit = FALSE
    /\ pc = "start"
    /\ run_count = 0
    /\ all_results = << >>
    /\ result = << >>
    /\ results = << >>
    /\ taskIdx = 1
    /\ interval = 0
    /\ remaining = 0
    /\ returned = << >>
    /\ resets = 0
    /\ homeLog = << >>
    /\ dispatched = NotCalled
    /\ slicesAfterExit = 0
    /\ tcase = NoCase
    /\ tres = NewTaskResult(NoCase.task)

\* Scheduled patrols.
Init ==
    \E c \in Configs(UNION {TaskLists(n, TRUE) : n \in 0..MaxSchedTasks},
                     Schedules, {TRUE},
                     {n \in NotificationChoices : n.lark.enabled = n.lark.webhook_url},
                     SchedTexts) : Constructed(c)

PassStep ==
    \/ SkipDisabledTask
    \/ RunTask
    \/ EndTaskLoop
    \/ Cleanup
    \/ Explore
    \/ ExploreCrash
    \/ NotifyAndReturn

Next ==
    \/ Execute
    \/ LoopHead
    \/ BeginPass
    \/ PassStep
    \/ PostPass
    \/ PreWait
    \/ WaitCheck
    \/ WaitSleep
    \/ Summarise
    \/ Signal

Spec == Init /\ [][Next]_vars

\* The controller's own steps: everything but the arrival of the signal.
Controller ==
    \/ Execute
    \/ LoopHead
    \/ BeginPass
    \/ PassStep
    \/ PostPass
    \/ PreWait
    \/ WaitCheck
    \/ WaitSleep
    \/ Summarise

\* Scheduled patrols of a running process: every call the controller makes
\* returns or raises and every sleep ends, so the controller's next step is
\* taken in the end; the signal may or may not arrive.
SpecFair == Init /\ [][Next]_vars /\ WF_vars(Controller)

\* Single passes: execute() with scheduled_patrol disabled.
InitPass ==
    \E c \in Configs(UNION {TaskLists(n, FALSE) : n \in 0..MaxTasks},
                     {OffSchedule}, BOOLEAN, NotificationChoices, PassTexts) :
         Constructed(c)

NextPass == Execute \/ PassStep

SpecPass == InitPass /\ [][NextPass]_vars

(***************************************************************************)
(* Single passes over tasks that name apps: what cleanup returns from      *)
(***************************************************************************)
\* Tasks naming an app by display name, by package name, in a rule, or not
\* at all; a disabled task that names one; the exploration task.
CleanupTaskChoices(i) ==
    { Task(TaskNames[i], TRUE, << >>, << >>, NoneApp),
      Task(TaskNames[i], TRUE, << >>, << >>, "AppA"),
      Task(TaskNames[i], TRUE, << >>, << >>, "pkg.a"),
      Task(TaskNames[i], FALSE, << >>, << >>, "pkg.b"),
      Task(TaskNames[i], TRUE, <<AppRule("pkg.a")>>, << >>, "AppB"),
      Task(TaskNames[i], TRUE, <<AppRule("AppA")>>, << >>, NoneApp),
      Task(ExploreTaskName, TRUE, << >>, << >>, NoneApp) }

RECURSIVE CleanupTaskLists(_)
CleanupTaskLists(n) ==
    IF n = 0 THEN {<< >>}
    ELSE {Append(l, t) : l \in CleanupTaskLists(n - 1), t \in CleanupTaskChoices(n)}

InitCleanup ==
    \E c \in Configs(UNION {CleanupTaskLists(n) : n \in 0..MaxCleanupTasks},
                     {OffSchedule}, BOOLEAN,
                     {n \in NotificationChoices : ~ n.lark.enabled}, PassTexts) :
         Constructed(c)

SpecCleanup == InitCleanup /\ [][NextPass]_vars

(***************************************************************************)
(* The task execution engine on its own: one task, one agent output        *)
(***************************************************************************)
KwOk == <<111, 107>>                          \* "ok"
KwSuccess == <<83, 85, 67, 67, 69, 83, 83>>   \* "SUCCESS"

VerdictRules ==
    { << >>, <<CustomRule>>, <<AppRule("pkg.a")>>,
      <<TextRule(<<KwOk, KwSuccess>>, TRUE)>>,
      <<TextRule(<<KwOk, KwSuccess>>, FALSE), CustomRule>> }

VerdictTasks ==
    {Task("task1", TRUE, r, k, a) :
        r \in VerdictRules, k \in {<< >>, <<KwOk>>}, a \in {NoneApp, "AppA"}}

\* No patrol runs: the configuration is of no account.
IdleConfig ==
    [name |-> "patrol", description |-> "d",
     tasks |-> <<Task("task1", TRUE, << >>, << >>, NoneApp)>>,
     auto_patrol |-> [enabled |-> FALSE],
     scheduled_patrol |-> OffSchedule,
     continue_on_error |-> FALSE,
     close_app_after_patrol |-> TRUE,
     save_screenshots |-> TRUE,
     notifications |-> [lark |-> [enabled |-> FALSE, webhook_url |-> FALSE]],
     agent_texts |-> {}]

InitVerdict ==
    /\ cfg = IdleConfig
    /\ notifiers = InitializeNotifiers(cfg.notifications)
    /\ exit = FALSE
    /\ pc = "idle"
    /\ run_count = 0
    /\ all_results = << >>
    /\ result = << >>
    /\ results = << >>
    /\ taskIdx = 1
    /\ interval = 0
    /\ remaining = 0
    /\ returned = << >>
    /\ resets = 0
    /\ homeLog = << >>
    /\ dispatched = NotCalled
    /\ slicesAfterExit = 0
    /\ \E t \in VerdictTasks, x \in AgentTexts : tcase = [task |-> t, text |-> x]
    /\ tres = NewTaskResult(tcase.task)

\* _execute_task is applied to the case.
EvalTask ==
    /\ pc = "idle"
    /\ \E env \in TaskEnvs(tcase.task, {tcase.text}, BOOLEAN) :
          tres' = ExecuteTask(tcase.task, env)
    /\ pc' = "evaluated"
    /\ UNCHANGED <<cfg, notifiers, exit, run_count, all_results, result, results,
                   taskIdx, interval, remaining, returned, resets, homeLog,
                   dispatched, slicesAfterExit, tcase>>

NextVerdict == EvalTask

SpecVerdict == InitVerdict /\ [][NextVerdict]_vars

(***************************************************************************)
(* The task execution engine on its own: every list of validation rules    *)
(***************************************************************************)
KwFailed == <<102, 97, 105, 108, 101, 100>>   \* "failed"

\* The rules a task may carry.
RuleChoices ==
    { CustomRule, AppRule("pkg.a"), AppRule("pkg.b"), AppRule("AppA"),
      TextRule(<<KwOk, KwSuccess>>, TRUE), TextRule(<<KwOk, KwSuccess>>, FALSE),
      TextRule(<<KwFailed>>, TRUE) }

RECURSIVE RuleLists(_)
RuleLists(n) ==
    IF n = 0 THEN {<< >>}
    ELSE {Append(l, r) : l \in RuleLists(n - 1), r \in RuleChoices}

RuleTasks ==
    {Task("task1", TRUE, r, k, a) :
        r \in UNION {RuleLists(n) : n \in 0..MaxRules},
        k \in {<< >>, <<KwOk>>}, a \in {NoneApp, "AppA"}}

\* Agent outputs: "", "FAILED", "failed", "failed ok", "ok", "SUCCESS",
\* "SUCCESS ok".
RuleTexts ==
    {<< >>, TxtFailed, KwFailed, KwFailed \o <<32>> \o KwOk,
     KwOk, KwSuccess, KwSuccess \o <<32>> \o KwOk}

InitRules ==
    /\ cfg = IdleConfig
    /\ notifiers = InitializeNotifiers(cfg.notifications)
    /\ exit = FALSE
    /\ pc = "idle"
    /\ run_count = 0
    /\ all_results = << >>
    /\ result = << >>
    /\ results = << >>
    /\ taskIdx = 1
    /\ interval = 0
    /\ remaining = 0
    /\ returned = << >>
    /\ resets = 0
    /\ homeLog = << >>
    /\ dispatched = NotCalled
    /\ slicesAfterExit = 0
    /\ \E t \in RuleTasks, x \in RuleTexts : tcase = [task |-> t, text |-> x]
    /\ tres = NewTaskResult(tcase.task)

\* _execute_task is applied to the case; what the collaborators did during
\* the call is kept with the case.
EvalRuleTask ==
    /\ pc = "idle"
    /\ \E env \in TaskEnvs(tcase.task, {tcase.text}, BOOLEAN) :
          /\ tres' = ExecuteTask(tcase.task, env)
          /\ tcase' = [task |-> tcase.task, text |-> tcase.text, env |-> env]
    /\ pc' = "evaluated"
    /\ UNCHANGED <<cfg, notifiers, exit, run_count, all_results, result, results,
                   taskIdx, interval, remaining, returned, resets, homeLog,
                   dispatched, slicesAfterExit>>

NextRules == EvalRuleTask

SpecRules == InitRules /\ [][NextRules]_vars

(***************************************************************************)
(* The notification manager on its own: every list of notifiers            *)
(***************************************************************************)
\* Class names of notifiers: the one the registry holds, and the names of
\* classes registered beside it.
NotifierClasses == <<"LarkNotifier", "NotifierB", "NotifierC", "NotifierD">>

\* self.notifiers: one notifier per registered class, each enabled as
\* BaseNotifier.__init__ leaves it, but a LarkNotifier that found no
\* webhook_url and turned itself off.
RegisteredNotifiers ==
    {nt \in [type : {NotifierClasses[c] : c \in 1..MaxChannels}, enabled : BOOLEAN] :
        nt.enabled \/ nt.type = NotifierClasses[1]}

RECURSIVE NotifierLists(_)
NotifierLists(n) ==
    IF n = 0 THEN {<< >>}
    ELSE {Append(p[1], p[2]) :
            p \in {q \in NotifierLists(n - 1) \X RegisteredNotifiers :
                     \A i \in 1..Len(q[1]) : q[1][i].type # q[2].type}}

\* The failed_tasks of the summaries handed to the manager.
FailedCounts == 0..MaxTasks

InitDispatch ==
    /\ cfg = IdleConfig
    /\ notifiers \in UNION {NotifierLists(n) : n \in 0..MaxChannels}
    /\ exit = FALSE
    /\ pc = "idle"
    /\ run_count = 0
    /\ all_results = << >>
    /\ result = << >>
    /\ results = << >>
    /\ taskIdx = 1
    /\ interval = 0
    /\ remaining = 0
    /\ returned = << >>
    /\ resets = 0
    /\ homeLog = << >>
    /\ dispatched = NotCalled
    /\ slicesAfterExit = 0
    /\ tcase = NoCase
    /\ tres = NewTaskResult(NoCase.task)

\* send_failure_notification is called with a summary; outcome[i] is what
\* the delivery of the i-th notifier does.
Dispatch ==
    /\ pc = "idle"
    /\ \E f \in FailedCounts :
       \E outcome \in [1..Len(notifiers) -> {"true", "false", Raise}] :
          LET res == [failed_tasks |-> f] IN
          dispatched' = [called |-> TRUE,
                         map |-> SendFailureNotification(res, outcome),
                         log |-> DeliveryLog(res, outcome),
                         res |-> res,
                         outcome |-> outcome]
    /\ pc' = "dispatched"
    /\ UNCHANGED <<cfg, notifiers, exit, run_count, all_results, result, results,
                   taskIdx, interval, remaining, returned, resets, homeLog,
                   slicesAfterExit, tcase, tres>>

NextDispatch == Dispatch

SpecDispatch == InitDispatch /\ [][NextDispatch]_vars

(***************************************************************************)
(* _extract_pages_from_result on its own: every text of a few lines        *)
(***************************************************************************)
\* Lines an exploration output is made of: page lines with and without the
\* colon, with surrounding blanks, with a test marker on the same line; test
\* lines that pass and fail; a line with no marker.
LineChoices ==
    { page_markers[1] \o <<Colon, 65>>,                            \* "发现页面：A"
      page_markers[2] \o <<66>>,                                   \* "进入页面B"
      <<32>> \o page_markers[3] \o <<Colon, 65, 32>>,              \* " 打开页面：A "
      page_markers[1] \o <<Colon, 66>> \o test_passed_markers[1],  \* "发现页面：B测试通过"
      test_passed_markers[1],                                      \* "测试通过"
      test_failed_markers[1],                                      \* "测试失败"
      <<32>> \o test_failed_markers[2],                            \* " 无法测试"
      <<111, 107>> }                                               \* "ok"

\* '\n'.join(lines)
RECURSIVE Join(_)
Join(lines) ==
    IF lines = << >> THEN << >>
    ELSE IF Len(lines) = 1 THEN lines[1]
    ELSE lines[1] \o <<NL>> \o Join(Tail(lines))

RECURSIVE TextsOfLines(_)
TextsOfLines(n) ==
    IF n = 0 THEN {<< >>}
    ELSE {Append(ls, l) : ls \in TextsOfLines(n - 1), l \in LineChoices}

PageTexts == {Join(ls) : ls \in UNION {TextsOfLines(n) : n \in 0..MaxLines}}

InitPages ==
    /\ cfg = IdleConfig
    /\ notifiers = << >>
    /\ exit = FALSE
    /\ pc = "idle"
    /\ run_count = 0
    /\ all_results = << >>
    /\ result = << >>
    /\ results = << >>
    /\ taskIdx = 1
    /\ interval = 0
    /\ remaining = 0
    /\ returned = << >>
    /\ resets = 0
    /\ homeLog = << >>
    /\ dispatched = NotCalled
    /\ slicesAfterExit = 0
    /\ \E t \in PageTexts : tcase = [task |-> NoCase.task, text |-> t]
    /\ tres = NewTaskResult(NoCase.task)

\* _extract_pages_from_result is called with the text and returns its list.
ExtractPagesCall ==
    /\ pc = "idle"
    /\ returned' = ExtractPages(tcase.text)
    /\ pc' = "extracted"
    /\ UNCHANGED <<cfg, notifiers, exit, run_count, all_results, result, results,
                   taskIdx, interval, remaining, resets, homeLog, dispatched,
                   slicesAfterExit, tcase, tres>>

NextPages == ExtractPagesCall

SpecPages == InitPages /\ [][NextPages]_vars

(***************************************************************************)
(* Configuration build: yaml_to_patrol_config                              *)
(***************************************************************************)
Absent == "absent"          \* a key the YAML mapping does not hold
DefaultTimeout == 30        \* TaskConfig.timeout when the YAML gives none
DefaultMaxTime == 300       \* auto_patrol.max_time when the YAML gives none

Raised(kind) == [raised |-> TRUE, error |-> kind]
Value(v) == [raised |-> FALSE, value |-> v]

\* dict.get(key, default), for a text or flag ("true" / "false") and for a
\* number.
Get(v, default) == IF v = Absent THEN default ELSE v
GetInt(n, default) == IF n.some THEN n.val ELSE default

\* The fields of the AutoPatrolConfig dataclass (models.py:122-147).
AutoPatrolConfigFields ==
    {"enabled", "target_app_name", "target_app_package", "max_pages", "max_depth",
     "max_time", "forbidden_actions", "test_actions", "explore_strategy",
     "save_discovered_pages", "screenshot_each_page"}

\* The keyword arguments yaml_to_auto_patrol_config passes to it (lines 280-291).
AutoPatrolKeywords ==
    {"enabled", "target_app", "max_pages", "max_depth", "max_time",
     "forbidden_actions", "test_actions", "explore_strategy",
     "save_discovered_pages", "screenshot_each_page"}

\* yaml_to_auto_patrol_config: a keyword that names no field of the dataclass
\* makes its constructor raise TypeError.
YamlToAutoPatrolConfig(auto_yaml) ==
    IF Get(auto_yaml.enabled, "false") # "true"
    THEN Value([enabled |-> FALSE, max_time |-> DefaultMaxTime])
    ELSE IF ~ (AutoPatrolKeywords \subseteq AutoPatrolConfigFields)
    THEN Raised("TypeError")
    ELSE Value([enabled |-> Get(auto_yaml.enabled, "true") = "true",
                max_time |-> GetInt(auto_yaml.max_time, DefaultMaxTime)])

\* _generate_exploration_task: reads auto_patrol_config.target_app.
GenerateExplorationTask(auto_patrol_config) ==
    IF "target_app" \notin AutoPatrolConfigFields
    THEN Raised("AttributeError")
    ELSE Value(Task(ExploreTaskName, TRUE, << >>, << >>, NoneApp)
                 @@ [timeout |-> auto_patrol_config.max_time])

\* yaml_to_task_config, for a task with its required fields.
YamlToTaskConfig(task_yaml) ==
    Task(task_yaml.name, Get(task_yaml.enabled, "true") = "true", << >>, << >>, NoneApp)
      @@ [timeout |-> GetInt(task_yaml.timeout, DefaultTimeout)]

\* PatrolConfig(...) with its __post_init__ (models.py:281-287).
NewPatrolConfig(name, tasks, auto_patrol, lang) ==
    IF lang \notin {"cn", "en"} THEN Raised("ValueError")
    ELSE IF tasks = << >> /\ ~ auto_patrol.enabled THEN Raised("ValueError")
    ELSE Value([name |-> name, tasks |-> tasks, auto_patrol |-> auto_patrol,
                lang |-> lang])

\* yaml_to_patrol_config (lines 28-92).
YamlToPatrolConfig(yaml_data) ==
    IF yaml_data.name = Absent THEN Raised("ValueError")
    ELSE LET auto == YamlToAutoPatrolConfig(yaml_data.auto_patrol)
             tasks == [i \in 1..Len(yaml_data.tasks) |->
                          YamlToTaskConfig(yaml_data.tasks[i])]
         IN IF auto.raised THEN auto
            ELSE IF ~ auto.value.enabled
            THEN NewPatrolConfig(yaml_data.name, tasks, auto.value,
                                 Get(yaml_data.lang, "cn"))
            ELSE LET exploration_task == GenerateExplorationTask(auto.value) IN
                 IF exploration_task.raised THEN exploration_task
                 ELSE NewPatrolConfig(yaml_data.name,
                                      <<exploration_task.value>> \o tasks,
                                      auto.value, Get(yaml_data.lang, "cn"))

YamlTask(i) ==
    {[name |-> TaskNames[i], enabled |-> e, timeout |-> NoneInt] :
        e \in {Absent, "true", "false"}}

RECURSIVE YamlTaskLists(_)
YamlTaskLists(n) ==
    IF n = 0 THEN {<< >>}
    ELSE {Append(l, t) : l \in YamlTaskLists(n - 1), t \in YamlTask(n)}

YamlChoices ==
    [name : {Absent, "patrol"},
     tasks : UNION {YamlTaskLists(n) : n \in 0..MaxYamlTasks},
     auto_patrol : [enabled : {Absent, "true", "false"},
                    max_time : {NoneInt, SomeInt(60)}],
     lang : {Absent, "en", "fr"}]

InitBuild ==
    /\ cfg = IdleConfig
    /\ notifiers = << >>
    /\ exit = FALSE
    /\ pc = "idle"
    /\ run_count = 0
    /\ all_results = << >>
    /\ result = << >>
    /\ results = << >>
    /\ taskIdx = 1
    /\ interval = 0
    /\ remaining = 0
    /\ returned = << >>
    /\ resets = 0
    /\ homeLog = << >>
    /\ dispatched = NotCalled
    /\ slicesAfterExit = 0
    /\ \E y \in YamlChoices : tcase = [task |-> NoCase.task, text |-> << >>, yaml |-> y]
    /\ tres = NewTaskResult(NoCase.task)

\* yaml_to_patrol_config is called and returns a PatrolConfig or raises.
BuildConfig ==
    /\ pc = "idle"
    /\ returned' = YamlToPatrolConfig(tcase.yaml)
    /\ pc' = IF returned'.raised THEN "rejected" ELSE "built"
    /\ UNCHANGED <<cfg, notifiers, exit, run_count, all_results, result, results,
                   taskIdx, interval, remaining, resets, homeLog, dispatched,
                   slicesAfterExit, tcase, tres>>

NextBuild == BuildConfig

SpecBuild == InitBuild /\ [][NextBuild]_vars

(***************************************************************************)
(* Properties                                                              *)
(***************************************************************************)
\* The pass is over: the task loop has been left.
AfterLoop == pc \in {"cleanup", "explore", "notify", "done", "crashed"}

\* C1: one patrol pass returns a RunSummary and lets no exception escape,
\* whatever the agent, the Custom predicates, cleanup and delivery do,
\* also when the exploration task's agent call raised.
C1_PassNeverRaises == pc # "crashed"

\* C2: with max_runs = N >= 1 and no cancellation, the controller ends
\* having run exactly N passes and appended exactly N summaries.
C2_ExactlyMaxRunsPasses ==
    LET m == cfg.scheduled_patrol.max_runs IN
    (m.some /\ m.val >= 1 /\ ~ exit /\ pc \in {"done", "crashed"})
        => (pc = "done" /\ run_count = m.val /\ Len(all_results) = m.val)

\* C3: whenever max_runs is set, 0 included, the passes started never
\* exceed it.
C3_NeverMoreThanMaxRuns ==
    cfg.scheduled_patrol.max_runs.some
        => run_count <= cfg.scheduled_patrol.max_runs.val

\* C4: once cancellation is requested in the inter-run wait, at most one
\* further slice ends, the wait is left and the loop stops with no new pass.
C4_WaitLeftWithinOneSlice ==
    [][ /\ slicesAfterExit' <= 1
        /\ (exit /\ pc = "wait_sleep") => pc' = "wait_check"
        /\ (exit /\ pc = "wait_check") => pc' = "loop"
        /\ (exit /\ pc = "loop") => (pc' = "summary" /\ run_count' = run_count) ]_vars

C4_Witness ==
    /\ pc = "done" /\ exit
    /\ slicesAfterExit = 1
    /\ remaining > 0
    /\ returned.total_runs = Len(all_results)

\* C5: a pass in flight when the flag is set completes normally, its
\* summary is appended, and the controller then stops: no wait, no pass.
C5_PassCompletesAfterCancel ==
    [][ /\ (exit /\ InPass) =>
              \/ InPass'
              \/ pc' = "post_pass" /\ all_results' = Append(all_results, results')
        /\ (exit /\ pc = "post_pass") => (pc' = "summary" /\ run_count' = run_count) ]_vars

\* The interval the configuration gives after a pass with these counts.
IntervalFor(res) ==
    IF res.passed_tasks = res.total_tasks
    THEN cfg.scheduled_patrol.success_interval
    ELSE cfg.scheduled_patrol.failure_interval

\* C6: a wait that follows a pass lasts success_interval if that pass had
\* passed_tasks = total_tasks and failure_interval otherwise, whatever the
\* earlier passes were.
C6_IntervalFromLastPass ==
    /\ pc \in {"pre_wait", "wait_check", "wait_sleep"}
          => interval = IntervalFor(all_results[Len(all_results)])
    /\ pc \in {"wait_check", "wait_sleep"}
          => (remaining <= interval /\ remaining >= 0)

C6_Witness ==
    /\ pc = "wait_check" /\ Len(all_results) = 2
    /\ all_results[1].passed_tasks # all_results[1].total_tasks
    /\ all_results[2].passed_tasks = all_results[2].total_tasks
    /\ interval = cfg.scheduled_patrol.success_interval
    /\ interval # cfg.scheduled_patrol.failure_interval
    /\ remaining = interval

\* C7: with continue_on_error off a pass runs the enabled tasks up to and
\* including the first failing one and none after it; total_tasks is the
\* enabled count, failed_tasks = 1 and passed_tasks = k - 1.
C7_StopsAtFirstFailure ==
    (AfterLoop /\ ~ cfg.continue_on_error) =>
        LET en == EnabledTasks(cfg.tasks)
            k == Len(results.tasks)
        IN /\ results.total_tasks = Len(en)
           /\ k <= Len(en)
           /\ \A i \in 1..k : results.tasks[i].name = en[i].name
           /\ \A i \in 1..(k - 1) : results.tasks[i].passed
           /\ IF k > 0 /\ ~ results.tasks[k].passed
              THEN results.failed_tasks = 1 /\ results.passed_tasks = k - 1
              ELSE k = Len(en) /\ results.failed_tasks = 0 /\ results.passed_tasks = k

C7_Witness ==
    /\ pc = "done" /\ ~ cfg.continue_on_error
    /\ Len(EnabledTasks(cfg.tasks)) = 3
    /\ Len(returned.tasks) = 2
    /\ returned.total_tasks = 3 /\ returned.failed_tasks = 1 /\ returned.passed_tasks = 1

\* C8: tasks run in declaration order, each enabled one at most once and
\* no disabled one; with continue_on_error on, every enabled task is run
\* whatever fails, and the results are in the order of the enabled tasks.
C8_DeclarationOrder ==
    (InPass \/ AfterLoop) =>
        LET en == EnabledTasks(cfg.tasks)
            k == Len(results.tasks)
        IN /\ k <= Len(en)
           /\ \A i \in 1..k : results.tasks[i].name = en[i].name
           /\ (AfterLoop /\ cfg.continue_on_error) => k = Len(en)

C8_Witness ==
    /\ pc = "done" /\ cfg.continue_on_error
    /\ Len(cfg.tasks) = 3 /\ ~ cfg.tasks[2].enabled
    /\ Len(returned.tasks) = 2
    /\ ~ returned.tasks[1].passed
    /\ returned.tasks[1].name = "task1" /\ returned.tasks[2].name = "task3"

\* Some phrase of `phrases` occurs in `text`, letter case apart.
SameLetter(a, b) ==
    (IF a \in 65..90 THEN a + 32 ELSE a) = (IF b \in 65..90 THEN b + 32 ELSE b)
HasPhrase(text, phrases) ==
    \E p \in 1..Len(phrases) : \E at \in 1..Len(text) :
        /\ at + Len(phrases[p]) - 1 <= Len(text)
        /\ \A k \in 1..Len(phrases[p]) : SameLetter(text[at + k - 1], phrases[p][k])

AgentReturned == pc = "evaluated" /\ tres.agent_result.some

\* C9: an agent output holding a failure phrase, in any letter case, gives
\* the verdict fail, whatever success phrase, rules, keywords and expected
\* app there are.
C9_FailurePhraseFails ==
    (AgentReturned /\ HasPhrase(tcase.text, failure_indicators)) => ~ tres.passed

C9_Witness ==
    /\ AgentReturned
    /\ HasPhrase(tcase.text, failure_indicators)
    /\ HasPhrase(tcase.text, success_indicators)
    /\ ~ Contains(tcase.text, failure_indicators[5])
    /\ ~ tres.passed /\ tres.error = "none"

NoPhrase(text) ==
    ~ HasPhrase(text, failure_indicators) /\ ~ HasPhrase(text, success_indicators)

PlainTask(task) ==
    /\ task.additional_validations = << >>
    /\ task.expected_keywords = << >>
    /\ task.expected_app = NoneApp

\* C10: an output with neither a failure nor a success phrase has base
\* verdict pass, and a task without rules, keywords and expected app then
\* passes.
C10_DefaultPass ==
    NoPhrase(tcase.text) =>
        /\ ParseAgentResult(tcase.text)
        /\ (AgentReturned /\ PlainTask(tcase.task)) => tres.passed

C10_Witness ==
    /\ AgentReturned /\ NoPhrase(tcase.text) /\ PlainTask(tcase.task)
    /\ Len(tcase.text) > 2
    /\ tres.passed /\ tres.error = "none"

\* task_result["passed"] as each layer leaves it: after the base verdict,
\* after each additional rule, after the expected_keywords check and after
\* the expected_app check.  A layer's value is the verdict of the task cut
\* off behind that layer.
LayerVerdicts ==
    LET t == tcase.task
        n == Len(t.additional_validations)
        Cut(m, kws, app) ==
            Task(t.name, t.enabled, SubSeq(t.additional_validations, 1, m), kws, app)
    IN [m \in 1..(n + 1) |-> ExecuteTask(Cut(m - 1, << >>, NoneApp), tcase.env).passed]
       \o << ExecuteTask(Cut(n, t.expected_keywords, NoneApp), tcase.env).passed,
             ExecuteTask(t, tcase.env).passed >>

\* C11: the refinement layers only downgrade: a failing base verdict gives
\* a failing TaskResult whatever rules, keywords and expected app say, and
\* once passed is false no later layer makes it true again.
C11_LayersOnlyDowngrade ==
    AgentReturned =>
        LET v == LayerVerdicts IN
        /\ v[1] = ParseAgentResult(tcase.text)
        /\ v[Len(v)] = tres.passed
        /\ \A i \in 1..Len(v) : \A j \in i..Len(v) : ~ v[i] => ~ v[j]
        /\ ~ ParseAgentResult(tcase.text) => ~ tres.passed

C11_Witness ==
    /\ AgentReturned
    /\ ~ ParseAgentResult(tcase.text)
    /\ Len(tres.additional_validations) = 2
    /\ tres.additional_validations[1].passed /\ tres.additional_validations[2].passed
    /\ tcase.task.expected_keywords # << >>
    /\ Contains(tcase.text, tcase.task.expected_keywords[1])
    /\ tcase.task.expected_app = "AppA"
    /\ ~ tres.passed /\ tres.error = "none"

\* kw stands in text, letter for letter, at some position.
OccursIn(kw, text) ==
    \E at \in 0..Len(text) :
        /\ at + Len(kw) <= Len(text)
        /\ \A k \in 1..Len(kw) : text[at + k] = kw[k]

\* C12: a TextContains rule with must_contain_all passes iff every keyword
\* is a literal substring of the agent output, and without it iff at least
\* one keyword is.
C12_TextContainsRule ==
    AgentReturned =>
        \A i \in 1..Len(tres.additional_validations) :
            LET rule == tcase.task.additional_validations[i] IN
            rule.validation_type = "text_contains" =>
                tres.additional_validations[i].passed =
                    IF rule.must_contain_all
                    THEN \A k \in 1..Len(rule.keywords) : OccursIn(rule.keywords[k], tcase.text)
                    ELSE \E k \in 1..Len(rule.keywords) : OccursIn(rule.keywords[k], tcase.text)

C12_Witness ==
    /\ AgentReturned
    /\ tcase.text = KwOk
    /\ tcase.task.additional_validations =
           <<TextRule(<<KwOk, KwSuccess>>, TRUE), TextRule(<<KwOk, KwSuccess>>, FALSE)>>
    /\ Len(tres.additional_validations) = 2
    /\ ~ tres.additional_validations[1].passed
    /\ tres.additional_validations[2].passed
    /\ ~ tres.passed

\* The other side of `ref` in the table of app names and package names.
Counterparts(ref) ==
    {APP_PACKAGES[i][1] : i \in {j \in 1..Len(APP_PACKAGES) : APP_PACKAGES[j][2] = ref}}
    \cup {APP_PACKAGES[i][2] : i \in {j \in 1..Len(APP_PACKAGES) : APP_PACKAGES[j][1] = ref}}

LookupRaised == \E j \in DOMAIN tcase.env.app : tcase.env.app[j] = Raise

\* The predicate of rule i was called and raised.
PredicateRaised(i) ==
    /\ tcase.task.additional_validations[i].validation_type = "custom"
    /\ tcase.env.custom[i] = Raise
    /\ \A j \in 1..(i - 1) : tcase.env.app[j] # Raise

\* C14: a Custom predicate that raises gives a failing outcome for its rule
\* with the exception's message; nothing propagates, the rules after it are
\* still evaluated and TaskResult.error is not set by it: but for that
\* message the TaskResult is the one of a predicate that returned false.
C14_CustomRaiseIsOutcome ==
    AgentReturned =>
        \A i \in 1..Len(tcase.task.additional_validations) :
            PredicateRaised(i) =>
                LET calm == ExecuteTask(tcase.task,
                                        [tcase.env EXCEPT !.custom[i] = "false"])
                IN /\ Len(tres.additional_validations) >= i
                   /\ ~ tres.additional_validations[i].passed
                   /\ tres.additional_validations[i].error = "exception"
                   /\ ~ tres.passed
                   /\ Len(tres.additional_validations) = Len(calm.additional_validations)
                   /\ \A j \in 1..Len(tres.additional_validations) :
                          j # i => tres.additional_validations[j]
                                     = calm.additional_validations[j]
                   /\ tres.error = calm.error
                   /\ ~ LookupRaised =>
                         /\ Len(tres.additional_validations)
                               = Len(tcase.task.additional_validations)
                         /\ tres.error = "none"

C14_Witness ==
    /\ AgentReturned
    /\ ParseAgentResult(tcase.text)
    /\ tcase.task.additional_validations = <<CustomRule, CustomRule>>
    /\ tcase.env.custom[1] = Raise /\ tcase.env.custom[2] = "true"
    /\ Len(tres.additional_validations) = 2
    /\ tres.additional_validations[1].error = "exception"
    /\ tres.additional_validations[2].passed
    /\ ~ tres.passed /\ tres.error = "none"

\* C15: when the agent call returned, the TaskResult holds exactly one
\* outcome per configured rule, in rule order, whatever the base verdict
\* and the earlier rules gave.
C15_OneOutcomePerRule ==
    AgentReturned =>
        /\ Len(tres.additional_validations) = Len(tcase.task.additional_validations)
        /\ \A i \in 1..Len(tres.additional_validations) :
               tres.additional_validations[i].name
                   = tcase.task.additional_validations[i].name

\* C16: when the agent call raises, the TaskResult has passed = false and
\* error set to the exception text, no verdict evaluation has run, and
\* nothing propagates: tasks after it run iff continue_on_error is on.
C16_AgentRaiseIsTaskFailure ==
    (InPass \/ AfterLoop) =>
        \A i \in 1..Len(results.tasks) :
            ~ results.tasks[i].agent_result.some =>
                /\ ~ results.tasks[i].passed
                /\ results.tasks[i].error = "agent"
                /\ results.tasks[i].additional_validations = << >>
                /\ ~ results.tasks[i].screenshot
                /\ i < Len(results.tasks) => cfg.continue_on_error
                /\ ~ cfg.continue_on_error => pc # "tasks"
                /\ (cfg.continue_on_error /\ AfterLoop) =>
                       Len(results.tasks) = Len(EnabledTasks(cfg.tasks))

C16_Witness ==
    /\ pc = "done" /\ cfg.continue_on_error
    /\ Len(cfg.tasks) = 2
    /\ cfg.tasks[1].additional_validations # << >>
    /\ Len(returned.tasks) = 2
    /\ ~ returned.tasks[1].agent_result.some
    /\ returned.tasks[1].error = "agent" /\ ~ returned.tasks[1].passed
    /\ returned.tasks[1].additional_validations = << >>
    /\ returned.tasks[2].passed

Dispatched == pc = "dispatched"

\* C17: dispatch returns an empty map and attempts no delivery whenever
\* failed_tasks is 0 or no channel is enabled; a delivery is attempted only
\* for a summary with failed_tasks > 0.
C17_NoFailureNoDispatch ==
    Dispatched =>
        /\ (dispatched.res.failed_tasks = 0
              \/ ~ \E i \in 1..Len(notifiers) : notifiers[i].enabled)
             => (dispatched.map = << >> /\ dispatched.log = << >>)
        /\ dispatched.log # << >> => dispatched.res.failed_tasks > 0

\* C18: for a summary with failures every enabled channel attempts its
\* delivery exactly once, whatever the channels before it did; a channel
\* that raises is recorded as false, every channel has its own entry, and
\* an entry depends on nothing but its own channel.
C18_ChannelsIsolated ==
    (Dispatched /\ dispatched.res.failed_tasks > 0) =>
        /\ \A i \in 1..Len(notifiers) :
               Cardinality({k \in 1..Len(dispatched.log) : dispatched.log[k] = i})
                   = IF notifiers[i].enabled THEN 1 ELSE 0
        /\ \A k \in 1..(Len(dispatched.log) - 1) : dispatched.log[k] < dispatched.log[k + 1]
        /\ DOMAIN dispatched.map = {notifiers[i].type : i \in 1..Len(notifiers)}
        /\ \A i \in 1..Len(notifiers) :
               dispatched.map[notifiers[i].type]
                   = (notifiers[i].enabled /\ dispatched.outcome[i] = "true")

C18_Witness ==
    /\ Dispatched /\ dispatched.res.failed_tasks > 0
    /\ Len(notifiers) = 2
    /\ notifiers[1].enabled /\ notifiers[2].enabled
    /\ dispatched.outcome[1] = "true" /\ dispatched.outcome[2] = Raise
    /\ dispatched.log = <<1, 2>>
    /\ dispatched.map[notifiers[1].type] /\ ~ dispatched.map[notifiers[2].type]

ScheduledDone == pc = "done" /\ cfg.scheduled_patrol.enabled

\* C19: when the loop is left with a non-empty history, total_runs is the
\* length of the history and the number of passes run, successful_runs the
\* number of entries with passed_tasks = total_tasks, and failed_runs the
\* rest; neither count is negative.
C19_CumulativeCounts ==
    (ScheduledDone /\ all_results # << >>) =>
        /\ returned.total_runs = Len(all_results)
        /\ returned.total_runs = run_count
        /\ returned.successful_runs =
               Cardinality({i \in 1..Len(all_results) :
                              all_results[i].passed_tasks = all_results[i].total_tasks})
        /\ returned.failed_runs = returned.total_runs - returned.successful_runs
        /\ returned.successful_runs + returned.failed_runs = returned.total_runs
        /\ returned.successful_runs >= 0
        /\ returned.failed_runs >= 0

C19_Witness ==
    /\ ScheduledDone
    /\ Len(all_results) >= 2
    /\ returned.successful_runs >= 1
    /\ returned.failed_runs >= 1

\* C20: a cancellation requested before any pass has started lets the
\* controller run no pass, call neither the agent nor reset, and return a
\* summary whose total_runs, successful_runs and failed_runs are all 0.
C20_CancelBeforeFirstPass ==
    [][(exit /\ run_count = 0 /\ cfg.scheduled_patrol.enabled) =>
          /\ run_count' = 0
          /\ resets' = 0
          /\ all_results' = << >>
          /\ pc' \in {"start", "loop", "summary", "done"}
          /\ tres' = tres
          /\ pc' = "done" => /\ returned'.total_runs = 0
                             /\ returned'.successful_runs = 0
                             /\ returned'.failed_runs = 0]_vars

\* C20, amended: a cancellation requested before the controller's first
\* test of the flag lets it run no pass, call neither the agent nor reset,
\* and return a summary whose three run counts are 0; a request that arrives
\* after that test and before the pass is seen only after the pass.
C20_CancelBeforeFirstTest ==
    [][(exit /\ run_count = 0 /\ pc # "begin" /\ cfg.scheduled_patrol.enabled) =>
          /\ run_count' = 0
          /\ resets' = 0
          /\ all_results' = << >>
          /\ pc' \in {"start", "loop", "summary", "done"}
          /\ tres' = tres
          /\ pc' = "done" => /\ returned'.total_runs = 0
                             /\ returned'.successful_runs = 0
                             /\ returned'.failed_runs = 0]_vars

C20_Witness ==
    /\ ScheduledDone
    /\ exit
    /\ run_count = 0
    /\ resets = 0
    /\ all_results = << >>
    /\ returned.total_runs = 0
    /\ returned.successful_runs = 0
    /\ returned.failed_runs = 0

LastEntry == all_results[Len(all_results)]

\* C21: the cumulative summary's last_result is the last entry of the
\* history, the summary of the most recently completed pass; its task
\* counts are that pass's counts; discovered_pages and exploration_summary
\* are present exactly when that entry carries them, and equal to them.
C21_LastResultCarried ==
    (ScheduledDone /\ all_results # << >>) =>
        /\ returned.last_result = LastEntry
        /\ returned.last_result = result
        /\ returned.total_tasks = LastEntry.total_tasks
        /\ returned.passed_tasks = LastEntry.passed_tasks
        /\ returned.failed_tasks = LastEntry.failed_tasks
        /\ ("discovered_pages" \in DOMAIN returned) = ("discovered_pages" \in DOMAIN LastEntry)
        /\ ("exploration_summary" \in DOMAIN returned)
              = ("exploration_summary" \in DOMAIN LastEntry)
        /\ "discovered_pages" \in DOMAIN LastEntry =>
              /\ returned.discovered_pages = LastEntry.discovered_pages
              /\ returned.exploration_summary = LastEntry.exploration_summary

C21_Witness ==
    /\ ScheduledDone
    /\ Len(all_results) >= 2
    /\ "discovered_pages" \in DOMAIN all_results[1]
    /\ "discovered_pages" \notin DOMAIN LastEntry
    /\ "discovered_pages" \notin DOMAIN returned
    /\ all_results[1].passed_tasks # returned.passed_tasks

\* C22: in a scheduled patrol the agent is reset exactly once right before
\* each pass other than the first and never before the first: after k
\* started passes k - 1 resets have happened, and no step other than the
\* start of a later pass resets the agent.
C22_ResetBetweenPasses ==
    [][/\ resets' = IF run_count' = 0 THEN 0 ELSE run_count' - 1
       /\ resets' # resets =>
             /\ pc = "begin" /\ pc' = "tasks"
             /\ run_count >= 1
             /\ run_count' = run_count + 1
             /\ resets' = resets + 1
       /\ (run_count' # run_count /\ run_count = 0) => resets' = 0]_vars

C22_Witness ==
    /\ ScheduledDone
    /\ run_count = MaxRuns
    /\ Len(all_results) = MaxRuns
    /\ resets = MaxRuns - 1

\* Every app reference of the configuration: expected_app of a task or of
\* one of its rules.
ReferencedApps ==
    {r \in {"AppA", "AppB", "pkg.a", "pkg.b"} :
        \E i \in 1..Len(cfg.tasks) :
           \/ cfg.tasks[i].expected_app = r
           \/ \E j \in 1..Len(cfg.tasks[i].additional_validations) :
                 cfg.tasks[i].additional_validations[j].expected_app = r}

StoppedEarly == Len(results.tasks) < results.total_tasks

\* C23: with close_app_after_patrol set, cleanup runs once per pass after
\* the task loop, whether the loop ran out or stopped on a failure; home
\* actions that raise or succeed leave passed_tasks, failed_tasks,
\* total_tasks and the task results as they were, and a home action that
\* raises does not keep the other apps from their home action.
C23_CleanupBestEffort ==
    [][/\ pc' = "cleanup" => pc = "tasks"
       /\ (pc = "tasks" /\ pc' # "tasks") => pc' = "cleanup"
       /\ pc # "cleanup" => homeLog' = homeLog
       /\ pc = "cleanup" =>
             /\ pc' = "explore"
             /\ results'.tasks = results.tasks
             /\ results'.passed_tasks = results.passed_tasks
             /\ results'.failed_tasks = results.failed_tasks
             /\ results'.total_tasks = results.total_tasks
             /\ cfg.close_app_after_patrol => DOMAIN homeLog' = ReferencedApps
             /\ ~ cfg.close_app_after_patrol => homeLog' = << >>]_vars

C23_Witness ==
    /\ pc = "done"
    /\ cfg.close_app_after_patrol
    /\ StoppedEarly
    /\ returned.failed_tasks = 1
    /\ \E r, q \in DOMAIN homeLog : homeLog[r] = Raise /\ homeLog[q] = "ok"

\* The home actions issued for the app of display name `name`.
HomeActionsFor(name) == {r \in DOMAIN homeLog : CloseName(r) = name}

\* C24: cleanup issues one home action per distinct app, however often and
\* in whichever form (display name, package name, both) the app is named.
C24_OneHomePerApp ==
    (pc \in {"explore", "notify", "done"} /\ cfg.close_app_after_patrol) =>
        \A r \in ReferencedApps : Cardinality(HomeActionsFor(CloseName(r))) = 1

Extracted == pc = "extracted"

\* The lines of the text, and what the parser takes each of them for.
TextLines == Split(tcase.text, << >>)

LineKind(rawline) ==
    IF AnyIn(page_markers, Strip(rawline)) THEN "page"
    ELSE IF AnyIn(test_passed_markers, Strip(rawline)) THEN "passed"
    ELSE IF AnyIn(test_failed_markers, Strip(rawline)) THEN "failed"
    ELSE "other"

\* The page lines in text order, and for each the lines up to the next one.
PageLineIdx ==
    SelectSeq([i \in 1..Len(TextLines) |-> i], LAMBDA i : LineKind(TextLines[i]) = "page")

SegmentEnd(i) ==
    LET later == {j \in (i + 1)..Len(TextLines) : LineKind(TextLines[j]) = "page"} IN
    IF later = {} THEN Len(TextLines) ELSE (CHOOSE j \in later : \A k \in later : j <= k) - 1

TestLinesOf(i) ==
    {j \in (i + 1)..SegmentEnd(i) : LineKind(TextLines[j]) \in {"passed", "failed"}}

OutcomeOf(i) ==
    IF TestLinesOf(i) = {} THEN "unset"
    ELSE LineKind(TextLines[CHOOSE j \in TestLinesOf(i) : \A k \in TestLinesOf(i) : j <= k])

NameOf(rawline) ==
    LET line == Strip(rawline)
        k == CHOOSE i \in 1..Len(page_name_keywords) :
                /\ Contains(line, page_name_keywords[i])
                /\ \A j \in 1..(i - 1) : ~ Contains(line, page_name_keywords[j])
    IN Strip(Remove(line, page_name_keywords[k]))

\* One page per page line: tested by the first test line of its segment.
PagePerLine ==
    [n \in 1..Len(PageLineIdx) |->
        [set |-> TRUE, page_name |-> NameOf(TextLines[PageLineIdx[n]]),
         tested |-> OutcomeOf(PageLineIdx[n]) # "unset",
         test_result |-> OutcomeOf(PageLineIdx[n])]]

\* The same without every untested page that equals an earlier one.
PagePerLineOnce ==
    LET kept == SelectSeq([n \in 1..Len(PagePerLine) |-> n],
                          LAMBDA n : \/ PagePerLine[n].tested
                                     \/ \A m \in 1..(n - 1) : PagePerLine[m] # PagePerLine[n])
    IN [k \in 1..Len(kept) |-> PagePerLine[kept[k]]]

Brief(pages) == [n \in 1..Len(pages) |-> <<pages[n].page_name, pages[n].tested>>]

NoPageMarker == \A k \in 1..Len(page_markers) : ~ Contains(tcase.text, page_markers[k])

\* C25: for a text in which no line has a page marker the list is empty,
\* test-passed and test-failed lines included: a test line met while no
\* page is pending adds nothing.
C25_NoPageNoResult ==
    (Extracted /\ NoPageMarker) => returned = << >>

C25_Witness ==
    /\ Extracted
    /\ NoPageMarker
    /\ Contains(tcase.text, test_passed_markers[1])
    /\ Contains(tcase.text, test_failed_markers[1])
    /\ returned = << >>

\* C26 as stated: every page line yields a page, in text order, and a page
\* whose segment has no test line, be it ended by the next page line or by
\* the end of the text, is in the list with tested = false.
C26_PendingAlwaysEmitted ==
    Extracted => Brief(returned) = Brief(PagePerLine)

\* C26: the same, but for a pending untested page that equals a page already
\* in the list: that one is not added again.
C26_PendingEmittedOnce ==
    Extracted => Brief(returned) = Brief(PagePerLineOnce)

C26_Witness ==
    /\ Extracted
    /\ Len(TextLines) >= 3
    /\ LineKind(TextLines[1]) = "page"
    /\ LineKind(TextLines[2]) = "page"
    /\ LineKind(TextLines[3]) = "other"
    /\ NameOf(TextLines[1]) # NameOf(TextLines[2])
    /\ Len(returned) = 2
    /\ returned[1] = Page(NameOf(TextLines[1]))
    /\ returned[2] = Page(NameOf(TextLines[2]))

\* C27: a test line met while a page is pending marks the page tested with
\* that result, adds it to the list once and clears the pending page, so a
\* test line right after it changes nothing; a line holding a page marker
\* and a test marker counts as a page line only.
C27_TestLineClosesPage ==
    Extracted =>
        /\ SelectSeq(returned, LAMBDA pg : pg.tested)
              = SelectSeq(PagePerLine, LAMBDA pg : pg.tested)
        /\ \A n \in 1..Len(returned) :
              returned[n].tested = (returned[n].test_result \in {"passed", "failed"})

C27_Witness ==
    /\ Extracted
    /\ Len(TextLines) = 3
    /\ Contains(TextLines[1], page_markers[1])
    /\ Contains(TextLines[1], test_passed_markers[1])
    /\ LineKind(TextLines[2]) = "failed"
    /\ LineKind(TextLines[3]) = "passed"
    /\ returned = <<[Page(NameOf(TextLines[1])) EXCEPT !.tested = TRUE,
                                                         !.test_result = "failed"]>>

Built == pc = "built"
BuildEnded == pc \in {"built", "rejected"}

\* C28: every patrol configuration that gets constructed has an enabled
\* task or exploration enabled; one with neither, such as a list of disabled
\* tasks without exploration, is rejected when it is constructed.
C28_SomethingToRun ==
    Built =>
        \/ \E i \in 1..Len(returned.value.tasks) : returned.value.tasks[i].enabled
        \/ returned.value.auto_patrol.enabled

\* The YAML is one the build accepts when exploration is left out.
PlainYamlAccepted == tcase.yaml.name # Absent /\ tcase.yaml.lang \in {Absent, "en"}

\* C29: with auto_patrol enabled the build succeeds and the task list is the
\* exploration task, enabled and with timeout = max_time, followed by the
\* configured tasks in their order; with auto_patrol disabled no task is
\* added.
C29_ExplorationTaskFirst ==
    (BuildEnded /\ PlainYamlAccepted) =>
        LET configured == [i \in 1..Len(tcase.yaml.tasks) |->
                              YamlToTaskConfig(tcase.yaml.tasks[i])]
        IN IF tcase.yaml.auto_patrol.enabled = "true"
           THEN /\ Built
                /\ Len(returned.value.tasks) = Len(configured) + 1
                /\ returned.value.tasks[1].name = ExploreTaskName
                /\ returned.value.tasks[1].enabled
                /\ returned.value.tasks[1].timeout
                      = GetInt(tcase.yaml.auto_patrol.max_time, DefaultMaxTime)
                /\ Tail(returned.value.tasks) = configured
           ELSE Built => returned.value.tasks = configured

\* The exploration task was executed in this pass: its result is recorded.
ExplorationExecuted ==
    \E i \in 1..Len(results.tasks) : results.tasks[i].name = ExploreTaskName

ExplorationResult ==
    results.tasks[CHOOSE i \in 1..Len(results.tasks) :
                     /\ results.tasks[i].name = ExploreTaskName
                     /\ \A j \in 1..(i - 1) : results.tasks[j].name # ExploreTaskName]

\* C30: with exploration active and the exploration task executed, the
\* summary of the pass carries discovered_pages, the pages extracted from
\* that task's recorded output, and an exploration_summary whose total is
\* the length of that list and whose tested count is the number of its
\* tested pages; the task counts are those of the task loop.
C30_ExplorationAttached ==
    (pc \in {"notify", "done", "crashed"}
       /\ ~ cfg.scheduled_patrol.enabled
       /\ cfg.auto_patrol.enabled
       /\ ExplorationExecuted) =>
        /\ pc # "crashed"
        /\ ExplorationResult.agent_result.some
        /\ results.discovered_pages = ExtractPages(ExplorationResult.agent_result.val)
        /\ results.exploration_summary.total_pages_discovered
              = Len(results.discovered_pages)
        /\ results.exploration_summary.pages_tested
              = Cardinality({n \in 1..Len(results.discovered_pages) :
                               results.discovered_pages[n].tested})
        /\ results.passed_tasks
              = Cardinality({i \in 1..Len(results.tasks) : results.tasks[i].passed})
        /\ results.failed_tasks
              = Cardinality({i \in 1..Len(results.tasks) : ~ results.tasks[i].passed})
        /\ results.total_tasks = Len(EnabledTasks(cfg.tasks))

\* The lookup of some AppOpened rule raised.
RuleLookupRaised ==
    \E j \in 1..Len(tcase.task.additional_validations) : tcase.env.app[j] = Raise

\* A rule or the expected_keywords check has turned the task to fail.
FailedBeforeAppCheck ==
    \/ \E j \in 1..Len(tres.additional_validations) :
          ~ tres.additional_validations[j].passed
    \/ /\ tcase.task.expected_keywords # << >>
       /\ \A k \in 1..Len(tcase.task.expected_keywords) :
             ~ OccursIn(tcase.task.expected_keywords[k], tcase.text)

\* C31: the device is asked for the foreground app of the expected_app check
\* only while the verdict is still pass: once a rule or the expected_keywords
\* check has failed the task, no lookup is made, so a lookup that would raise
\* leaves error unset.
C31_NoLookupOnFailedTask ==
    (pc = "evaluated" /\ "env" \in DOMAIN tcase /\ tres.agent_result.some
       /\ ~ RuleLookupRaised /\ FailedBeforeAppCheck) =>
        tres.error = "none"

\* The task loop was left by break with an enabled task still to come.
BrokeOff ==
    /\ taskIdx <= Len(cfg.tasks)
    /\ \E j \in (taskIdx + 1)..Len(cfg.tasks) : cfg.tasks[j].enabled

\* C32: in every summary of a pass passed_tasks + failed_tasks is the number
\* of task results, at most total_tasks, the number of enabled tasks; it is
\* total_tasks exactly when the loop was not stopped before its last enabled
\* task; passed_tasks = total_tasks only if every enabled task was run and
\* passed.
C32_CountsAddUp ==
    (AfterLoop /\ ~ cfg.scheduled_patrol.enabled) =>
        /\ results.passed_tasks + results.failed_tasks = Len(results.tasks)
        /\ Len(results.tasks) <= results.total_tasks
        /\ results.total_tasks = Len(EnabledTasks(cfg.tasks))
        /\ (results.passed_tasks + results.failed_tasks = results.total_tasks) = ~ BrokeOff
        /\ results.passed_tasks = results.total_tasks =>
              /\ Len(results.tasks) = Len(EnabledTasks(cfg.tasks))
              /\ \A i \in 1..Len(results.tasks) : results.tasks[i].passed

C32_Witness ==
    /\ pc = "done" /\ ~ cfg.scheduled_patrol.enabled
    /\ ~ cfg.continue_on_error
    /\ taskIdx <= Len(cfg.tasks)
    /\ ~ BrokeOff
    /\ returned.total_tasks = 2
    /\ returned.failed_tasks = 1
    /\ returned.passed_tasks = 1

\* A pass begins: the controller calls _execute_single_patrol.
PassBegins == pc = "begin" /\ pc' = "tasks"

\* C33: once the flag is set the controller begins no new pass, wherever the
\* handler runs between the controller's steps: no pass begins in a state
\* where the flag is true.
C33_NoPassBeginsWithFlag ==
    [][PassBegins => ~ exit]_vars

\* C33, amended: the loop body is entered only from the while condition and
\* only when that test found the flag false, and a pass begins only from the
\* loop body; a flag set between the test and the pass is seen after it.
C33_NoBodyEntryWithFlag ==
    [][/\ (pc' = "begin" /\ pc # "begin") => (pc = "loop" /\ ~ exit)
       /\ (pc' = "tasks" /\ pc # "tasks") => pc = "begin"
       /\ (exit /\ pc = "post_pass") => pc' = "summary"]_vars

C33_Witness ==
    /\ pc = "begin"
    /\ exit
    /\ run_count = 1
    /\ Len(all_results) = 1

\* With the flag set, a pass that completes is the last: its summary is
\* appended, the controller goes to its cumulative summary, and from there
\* nothing leads back into the loop.
OnePassAtMostAfterRequest ==
    /\ (exit /\ all_results' # all_results) =>
           (pc' = "post_pass" /\ Len(all_results') = Len(all_results) + 1)
    /\ (exit /\ pc = "post_pass") => pc' = "summary"
    /\ pc = "summary" => pc' \in {"summary", "done"}
    /\ pc = "done" => pc' = "done"

\* C34: the flag is never cleared once set; once cancellation is requested
\* the controller ends by returning its cumulative summary, and at most one
\* pass is completed after the request.
C34_CancelLeadsToSummary ==
    /\ [][exit => exit']_vars
    /\ exit ~> (pc = "done")
    /\ [][OnePassAtMostAfterRequest]_vars

\* The flag stays set, a requested cancellation ends the controller, by its
\* summary or by the exception of a pass, and at most one pass is completed
\* after the request.
CancelLeadsToEnd ==
    /\ [][exit => exit']_vars
    /\ exit ~> (pc \in {"done", "crashed"})
    /\ [][OnePassAtMostAfterRequest]_vars

\* The pass just completed was the max_runs-th.
LastPassDone ==
    /\ cfg.scheduled_patrol.max_runs.some
    /\ run_count = cfg.scheduled_patrol.max_runs.val

\* The controller is in the inter-run wait.
Waiting == pc \in {"wait_check", "wait_sleep"}

\* C35: after the max_runs-th pass the controller leaves the loop without a
\* wait; without cancellation a wait begins only after a completed pass that
\* is not the last, lasts exactly the chosen interval in slices of one
\* second, and is followed by the next pass, so that N passes have N - 1
\* waits between them.
C35_WaitsOnlyBetweenPasses ==
    [][exit' = exit =>
       /\ (pc = "pre_wait" /\ LastPassDone) =>
             (pc' \in {"summary", "loop"} /\ remaining' = remaining)
       /\ (pc = "pre_wait" /\ ~ exit /\ ~ LastPassDone) =>
             (pc' = "wait_check" /\ remaining' = NextInterval(all_results[run_count]))
       /\ (Waiting' /\ ~ Waiting) =>
             /\ pc = "pre_wait"
             /\ Len(all_results) = run_count
             /\ ~ LastPassDone
       /\ (pc = "post_pass" /\ ~ exit) => pc' = "pre_wait"
       /\ (pc = "wait_sleep") =>
             (remaining >= 1 /\ remaining' = remaining - 1 /\ pc' = "wait_check")
       /\ (Waiting /\ ~ Waiting' /\ ~ exit) =>
             (remaining = 0 /\ pc' = "loop" /\ ~ LastPassDone)
       /\ (pc = "loop" /\ ~ exit /\ run_count >= 1 /\ ~ LastPassDone
             /\ cfg.scheduled_patrol.max_runs.some) => pc' = "begin"
       /\ remaining' # remaining =>
             (pc = "pre_wait" \/ pc = "wait_sleep")]_vars

C35_Witness ==
    /\ ScheduledDone
    /\ ~ exit
    /\ LastPassDone
    /\ run_count = MaxRuns
    /\ Len(all_results) = MaxRuns
    /\ interval = MaxInterval
    /\ remaining = 0

\* C36: the dispatch of failure notifications happens at most once per pass,
\* as the last step of the pass, on the summary with its final counts, end
\* time and exploration data; the scheduled controller does not dispatch
\* again; and whatever the deliveries do, raising included, the summary the
\* pass returns is the one it had before the dispatch.
C36_DispatchOncePerPass ==
    [][/\ dispatched' # dispatched => (pc = "notify" /\ pc' = "post_pass")
       /\ (pc = "notify" /\ pc' # "notify") =>
             /\ dispatched'.called = has_enabled_notifiers
             /\ DOMAIN dispatched'.map # {} => results.failed_tasks > 0
             /\ "end_time" \in DOMAIN results
             /\ (cfg.auto_patrol.enabled /\ ExplorationTask(results) # 0) =>
                   "discovered_pages" \in DOMAIN results
             /\ results.passed_tasks + results.failed_tasks = Len(results.tasks)
             /\ results' = results
             /\ result' = results
             /\ all_results' = Append(all_results, results)
       /\ pc # "notify" => all_results' = all_results
       /\ pc \notin {"begin", "tasks", "cleanup", "explore"} => results' = results]_vars

C36_Witness ==
    /\ ScheduledDone
    /\ Len(all_results) = 2
    /\ dispatched.called
    /\ DOMAIN dispatched.map # {}
    /\ \A t \in DOMAIN dispatched.map : ~ dispatched.map[t]
    /\ returned.last_result = all_results[2]
    /\ returned.failed_tasks > 0

\* C37: every registered channel is enabled: a channel that disabled itself
\* at construction for want of a webhook URL is not counted by
\* has_enabled_notifiers and has no entry in the map dispatch returns.
C37_RegisteredAreEnabled ==
    /\ \A i \in 1..Len(notifiers) : notifiers[i].enabled
    /\ has_enabled_notifiers => \E i \in 1..Len(notifiers) : notifiers[i].enabled
    /\ Dispatched =>
          \A t \in DOMAIN dispatched.map :
              \E i \in 1..Len(notifiers) : notifiers[i].type = t /\ notifiers[i].enabled

\* C38: the list has at most one entry per line with a page marker, and an
\* entry has tested = true exactly when it carries a test_result of passed
\* or failed; an untested entry carries none.
C38_AtMostOnePerPageLine ==
    Extracted =>
        /\ Len(returned) <= Len(PageLineIdx)
        /\ \A n \in 1..Len(returned) :
              /\ returned[n].tested <=> returned[n].test_result \in {"passed", "failed"}
              /\ ~ returned[n].tested => returned[n].test_result = "unset"

C38_Witness ==
    /\ Extracted
    /\ Len(PageLineIdx) = 3
    /\ Len(returned) = 2
    /\ returned[1].tested /\ returned[1].test_result = "passed"
    /\ ~ returned[2].tested

\* The task list has no enabled task.
ZeroEnabled == EnabledTasks(cfg.tasks) = << >>

\* C39: a pass over a task list without enabled tasks executes no task, has
\* total_tasks = passed_tasks = failed_tasks = 0 and no task result, counts
\* as successful (success_interval is chosen, successful_runs counts it) and
\* delivers no notification.
C39_EmptyPassSucceeds ==
    ZeroEnabled =>
        /\ tcase = NoCase /\ tres = NewTaskResult(NoCase.task)
        /\ \A i \in 1..Len(all_results) :
              /\ all_results[i].total_tasks = 0
              /\ all_results[i].passed_tasks = 0
              /\ all_results[i].failed_tasks = 0
              /\ all_results[i].tasks = << >>
        /\ pc \in {"pre_wait", "wait_check", "wait_sleep"} =>
              interval = cfg.scheduled_patrol.success_interval
        /\ (ScheduledDone /\ all_results # << >>) =>
              /\ returned.successful_runs = Len(all_results)
              /\ returned.failed_runs = 0
        /\ dispatched.map = << >>
        /\ pc # "crashed"

C39_Witness ==
    /\ ScheduledDone
    /\ ZeroEnabled
    /\ Len(cfg.tasks) = MaxSchedTasks
    /\ Len(all_results) = 2
    /\ returned.successful_runs = 2
    /\ dispatched.called
    /\ interval = MaxInterval
    /\ cfg.scheduled_patrol.success_interval = MaxInterval
    /\ cfg.scheduled_patrol.failure_interval = 0

\* C40: every result execute() returns has total_tasks, passed_tasks,
\* failed_tasks, tasks, start_time, end_time and total_duration, so that
\* neither the reporter nor the command line reads a key that is missing.
C40_ResultHasReportFields ==
    pc = "done" =>
        /\ {"total_tasks", "passed_tasks", "failed_tasks", "tasks",
            "start_time", "end_time", "total_duration"} \subseteq DOMAIN returned
        /\ ReportReads(returned) \subseteq DOMAIN returned
        /\ CliReads \subseteq DOMAIN returned

====
